---- MODULE Spec2Model ----
(***************************************************************************)
(* Vault Store of Obsidian-backend: the lock file protocol (LockFile),     *)
(* the retrying lock acquirer (FileLocker + Retrier), the atomic file      *)
(* writer (AtomicFileOperations) and the VaultManager operations built on  *)
(* them, as concurrent processes over one file system.                     *)
(*                                                                         *)
(* Every system call (open, flock, unlink, close, mkstemp, rename) is one  *)
(* atomic step of the calling process; steps of different processes        *)
(* interleave freely.                                                      *)
(*                                                                         *)
(* On top of the vault: get_notes listing a folder, and the TaskProcessor  *)
(* methods process_active_task and process_completed_task as the           *)
(* TaskService batches call them, one pass at a time, while days go by.    *)
(* Dates and datetimes are counted in whole days.                          *)
(***************************************************************************)
EXTENDS Integers, Sequences, FiniteSets, TLC

VARIABLES
    files,       \* record path -> content of the file at that path
    tmp,         \* process -> content of the temporary file its mkstemp made
    lockDir,     \* record path P -> inode the name P.lock refers to (0: no such name)
    flockOwner,  \* inode -> process whose open handle holds the flock (0: unlocked)
    pc,          \* process -> position in the running call
    call,        \* process -> the running call and its inputs
    frames,      \* process -> stack of lock files it has open (LockFile.acquire frames)
    exc,         \* process -> exception in flight, outermost first, causes after it
    attempts,    \* process -> lock attempts (open + flock) made by the current acquire_write_lock
    item,        \* process -> the in-memory record the process works on
    seen,        \* process -> what the last read_note observed
    now,         \* the day datetime.now() falls on
    pass,        \* the TaskProcessor call in progress and what it was given
    listing,     \* the get_notes call in progress: paths left to read, records read
    batch,       \* the TaskApplicationService batch in progress: tasks left, count so far
    git,         \* the git repository of the vault and the batch_sync call in progress
    norm,        \* the wall clock and the last normalize_for_field call: input and output
    rate,        \* PerKeyRateLimitMiddleware: its clock, its deques, the requests in flight
    auth,        \* APIKeyService: its clock, its key cache, the validations in flight
    retry        \* the Retrier.execute call in progress: attempts made, errors, waits

vaultVars == <<files, tmp, lockDir, flockOwner, pc, call, frames, exc, attempts, item, seen>>
appVars == <<now, pass, listing>>
svcVars == <<batch, git, norm, rate, auth, retry>>
vars == <<files, tmp, lockDir, flockOwner, pc, call, frames, exc, attempts, item, seen,
          now, pass, listing, batch, git, norm, rate, auth, retry>>

\* what the steps of one component leave alone
exceptBatch == <<git, norm, rate, auth, retry>>
exceptGit == <<vaultVars, appVars, batch, norm, rate, auth, retry>>
exceptNorm == <<vaultVars, appVars, batch, git, rate, auth, retry>>
exceptRate == <<vaultVars, appVars, batch, git, norm, auth, retry>>
exceptAuth == <<vaultVars, appVars, batch, git, norm, rate, retry>>
exceptRetry == <<vaultVars, appVars, batch, git, norm, rate, auth>>

----------------------------------------------------------------------------
(* Processes and program constants *)

MaxRetries == 5      \* FileLocker.__init__(max_retries=5)

Procs == {1, 2, 3}   \* the contenders of the lock specification
Writers == {1, 2}    \* the callers of the vault specification
AllProcs == Procs \cup Writers

----------------------------------------------------------------------------
(* Paths *)

TasksDir == "Tasks"
CompletedDir == "Tasks/Completed"
Dirs == {TasksDir, CompletedDir}
Title == "n"

RecordPath(dir, title) == [dir |-> dir, name |-> title]
Paths == {RecordPath(d, Title) : d \in Dirs}
NoPath == [dir |-> "", name |-> ""]
X == RecordPath(TasksDir, Title)
Y == RecordPath(CompletedDir, Title)

\* the folder config["archive"] names, and a second record of the tasks folder
ArchiveDir == "Archive"
OtherTitle == "m"
A == RecordPath(ArchiveDir, Title)
M == RecordPath(TasksDir, OtherTitle)

\* the second record once moved to the completed folder, and its archive entry
YM == RecordPath(CompletedDir, OtherTitle)
AM == RecordPath(ArchiveDir, OtherTitle)
AllPaths == Paths \cup {A, M, YM, AM}

\* str(path) order of "<vault>/Tasks/Completed/n.md" and "<vault>/Tasks/n.md":
\* the strings first differ after "Tasks/", at "C" against "n", and "C" < "n".
PathKey(P) == IF P.dir = CompletedDir THEN 1 ELSE 2

\* mutant: the source is locked first, whichever path sorts first
SourceFirst(src, dst) == <<src, dst>>

\* sorted([source_path, dest_path], key=str)
SortedPaths(src, dst) ==
    IF PathKey(src) <= PathKey(dst) THEN <<src, dst>> ELSE <<dst, src>>

----------------------------------------------------------------------------
(* Dates *)

\* Time is counted in whole days: a date or datetime value is the number of its
\* day, and datetime.now() is the current day.
MaxDay == 3
Days == 1..MaxDay

\* normalize_for_field: `if not value: return None`; the field default "" is as falsy
NoDate == 0

\* a text that none of the formats of parse_datevalue_to_parseddate accepts
BadDate == -1

----------------------------------------------------------------------------
(* File contents *)

\* A file is absent, empty (just created or truncated), partially written, or
\* holds the complete serialization of a post: the metadata map and, under
\* content, the body text. A key other than done that is missing and a key that
\* holds the default of its field are the same map.
NoMeta == [done |-> "absent", completed_at |-> NoDate, do_date |-> NoDate,
           due_date |-> NoDate, repeat_task |-> "", is_project |-> "false",
           content |-> ""]
NoFile == [state |-> "nofile", meta |-> NoMeta]
EmptyFile == [state |-> "empty", meta |-> NoMeta]
PartialFile(m) == [state |-> "partial", meta |-> m]
CompleteFile(m) == [state |-> "complete", meta |-> m]

\* metadata maps: the key "done" is missing, or holds a boolean
DoneValues == {"true", "false"}
Metas == {[NoMeta EXCEPT !.done = v] : v \in DoneValues \cup {"absent"}}

----------------------------------------------------------------------------
(* Exceptions *)

Exc(type, op, path, path2) == [type |-> type, op |-> op, path |-> path, path2 |-> path2]

BlockingIOError == Exc("BlockingIOError", "", NoPath, NoPath)
FileNotFoundError == Exc("FileNotFoundError", "", NoPath, NoPath)
NotADirectoryError == Exc("NotADirectoryError", "", NoPath, NoPath)
ProducerOSError == Exc("OSError", "", NoPath, NoPath)
BodyError == Exc("RuntimeError", "", NoPath, NoPath)
ValueError == Exc("ValueError", "", NoPath, NoPath)

OSErrorTypes == {"BlockingIOError", "FileNotFoundError", "NotADirectoryError", "OSError"}
IsOSError(e) == e.type \in OSErrorTypes

VaultConcurrencyError(P) == Exc("VaultConcurrencyError", "", P, NoPath)
VaultFileOperationError(op, P, P2) == Exc("VaultFileOperationError", op, P, P2)

NoExc == << >>

----------------------------------------------------------------------------
(* Inodes of lock files *)

Inodes == 1..(2 * Cardinality(AllProcs) + Cardinality(Paths))

InodeInUse(i) ==
    \/ \E P \in AllPaths : lockDir[P] = i
    \/ \E p \in AllProcs : \E k \in 1..Len(frames[p]) : frames[p][k].ino = i

FreshInode == CHOOSE i \in Inodes : ~InodeInUse(i) /\ \A j \in Inodes : j < i => InodeInUse(j)

----------------------------------------------------------------------------
(* Calls *)

NoCall == [op |-> "none", path |-> NoPath, dst |-> NoPath, fault |-> "none", meta |-> NoMeta]
NoItem == [source_path |-> NoPath, title |-> Title, done |-> "false", fm |-> NoMeta,
           completed_at |-> NoDate, do_date |-> NoDate, due_date |-> NoDate,
           repeat_task |-> "", is_project |-> "false", content |-> ""]

Top(p) == frames[p][Len(frames[p])]

\* the path whose lock the process is acquiring next
LockTarget(p) ==
    IF call[p].op = "move_note"
    THEN SortedPaths(call[p].path, call[p].dst)[Len(frames[p]) + 1]
    ELSE call[p].path

\* where control goes once lock_exclusive has succeeded
BodyEntry(p, depth) ==
    CASE call[p].op = "lock" -> "cs"
      [] call[p].op \in {"atomic_write", "write_note"} -> "mkstemp"
      [] call[p].op = "move_note" -> IF depth = 1 THEN "retrier" ELSE "rename"
      [] call[p].op = "delete_note" -> "unlinkfile"
      [] OTHER -> "cs"

InCriticalSection(p, P) ==
    \E k \in 1..Len(frames[p]) : frames[p][k].path = P /\ frames[p][k].locked

----------------------------------------------------------------------------
(* DateService: values with a time of day *)

\* the times of day told apart: midnight, a time within the day, the last second
Midnight == "00:00:00"
Morning == "09:30:00"
EndOfDay == "23:59:59"
Times == {Midnight, Morning, EndOfDay}

\* a datetime: its day and its time of day; None
Datetime(day, time) == [day |-> day, time |-> time]
NoDatetime == Datetime(NoDate, "")

\* a DateValue: None or "" (kind none), a date object, a datetime object, a
\* string "YYYY-MM-DD" (time "") or "YYYY-MM-DDTHH:MM:SS", a string of no known
\* format, or an object of another type
DateInput(kind, day, time) == [kind |-> kind, day |-> day, time |-> time]
NormValues ==
    {DateInput("none", NoDate, ""), DateInput("badstr", NoDate, ""),
     DateInput("other", NoDate, "")}
    \cup {DateInput("date", d, "") : d \in Days}
    \cup {DateInput("datetime", d, t) : d \in Days, t \in Times}
    \cup {DateInput("str", d, t) : d \in Days, t \in Times \cup {""}}

\* the field names normalize_for_field is called with, and one it does not know
NormFields == {"due_date", "do_date", "completed_at", "created_at"}

\* the wall clock, and the last normalize_for_field call: its arguments, the
\* time of day it was made at, and what it returned
NoNorm == [clock |-> Midnight, phase |-> "idle", value |-> DateInput("none", NoDate, ""),
           field |-> "", at |-> Midnight, out |-> NoDatetime]

----------------------------------------------------------------------------
(* PerKeyRateLimitMiddleware: configuration and state *)

\* PerKeyRateLimitMiddleware(app, requests_per_minute, window_seconds,
\* cleanup_interval), scaled down; seconds of the clock the model runs for
RequestsPerMinute == 2
WindowSeconds == 2
CleanupInterval == 3
MaxTime == 3

\* the API keys of authenticated requests; "" is a request without a key or
\* one that is not authenticated
ApiKeys == {"k1", "k2"}
NoKey == ""

\* the requests that may be in flight at the same time
Requests == {1, 2, 3}

\* time.time(); self.requests (a missing key and an empty deque are the same to
\* a defaultdict); self.last_cleanup; each request's position in dispatch; and as
\* a history: per key the times of the admitted requests that lie within the
\* window before the clock, and the last decision with the number of those there
\* were when it was made
NoRate == [clock |-> 0,
           requests |-> [k \in ApiKeys |-> << >>],
           last_cleanup |-> 0,
           pc |-> [r \in Requests |-> "idle"],
           admitted |-> [k \in ApiKeys |-> << >>],
           last |-> [key |-> NoKey, at |-> 0, before |-> 0, status |-> 0]]

----------------------------------------------------------------------------
(* Retrier: configuration and state *)

\* Retrier(max_retries, base_delay) as FileLocker builds it, and the max_delay
\* default of Retrier
BaseDelay == 1
MaxDelay == 5

\* what one invocation of the operation may do: return a value or raise an error
OpResults == {"r1", "r2"}
OpErrors == {"e1", "e2"}

\* the execute call in progress: max_attempts, the loop variable `attempt`,
\* last_error, the delay computed last, how the call ended; and as a history the
\* outcome of every invocation made and the waits made between them
NoRetry == [phase |-> "idle", max |-> 0, attempt |-> 0, last_error |-> "none",
            delay |-> 0, result |-> "none", raised |-> "none",
            log |-> << >>, slept |-> << >>]

----------------------------------------------------------------------------
(* APIKeyService: configuration and state *)

\* self._cache_ttl_seconds, scaled down; seconds the model runs for
CacheTtlSeconds == 2
MaxElapsed == 4

\* time.time() at start: seconds since the epoch, far more than the ttl
StartTime == CacheTtlSeconds + 1

\* the key lists the secrets source may hold (none, when the secret has no keys
\* or get_api_keys swallowed a ClientError), settings.api_keys, and the keys
\* that requests present
KeySets == {{}, {"a"}, {"a", "b"}}
SettingsKeys == {"a"}
PresentedKeys == {"a", "b", "x"}

\* the validate_key calls that may be in flight at the same time
Validators == {1, 2}

\* settings.environment; time.time(); self._cached_keys; self._cache_timestamp;
\* per validate_key call its position, the key presented, its result and whether
\* its refresh failed; and as a history the time of the last refresh that succeeded
NoAuth == [env |-> "production", clock |-> StartTime, cached |-> {}, timestamp |-> 0,
           pc |-> [v \in Validators |-> "idle"],
           key |-> [v \in Validators |-> ""],
           result |-> [v \in Validators |-> FALSE],
           failed |-> [v \in Validators |-> FALSE],
           lastSuccess |-> 0]

----------------------------------------------------------------------------
(* Initial state: a vault holding one active task, nothing running *)

\* the TaskProcessor call in progress: which method, how far it got, the task as
\* it was passed in, the task while another record is being written, and the day
\* process_active_task set completed_at on the record of this vault; when the
\* call is a second one on the task object of the call before: that task and
\* the vault as the first call left them
NoFiles == [Q \in AllPaths |-> NoFile]
NoPass == [kind |-> "none", phase |-> "idle", loaded |-> NoItem, task |-> NoItem,
           markedAt |-> NoDate, again |-> FALSE, first |-> NoItem, firstFiles |-> NoFiles]

\* the batch in progress: which of the two, the loaded tasks the loop has still
\* to visit, processed_count, and as a history the paths of the listed tasks and,
\* for each call made so far, the path of the task and how the call ended
NoBatch == [kind |-> "none", phase |-> "idle", queue |-> << >>, count |-> 0,
            listed |-> << >>, handled |-> << >>, outcomes |-> << >>]

\* the repository: uncommitted changes in the working tree, commits made and
\* commits pushed; GitManager._batch_mode; and the batch_sync call in progress:
\* who called, whether a commit message was passed, what was done so far, the
\* value the operation returned, the value handed to the caller, the exception,
\* the nested batch_sync blocks open and the calls the body made to GitManager
NoGit == [dirty |-> FALSE, local |-> 0, pushed |-> 0, batch_mode |-> FALSE,
          phase |-> "idle", caller |-> "none", message |-> "none", log |-> << >>,
          value |-> 0, result |-> 0, exc |-> "none", depth |-> 0, inner |-> 0]

\* the get_notes call in progress: the paths glob returned and are still to be
\* read, the records read so far, and the exception that left the call
NoListing == [phase |-> "idle", todo |-> << >>, items |-> << >>, exc |-> NoExc]

\* no call is running anywhere and no lock file exists; the key service is yet
\* to be configured
AllIdleButAuth ==
    /\ tmp = [p \in AllProcs |-> NoFile]
    /\ lockDir = [P \in AllPaths |-> 0]
    /\ flockOwner = [i \in Inodes |-> 0]
    /\ pc = [p \in AllProcs |-> "idle"]
    /\ call = [p \in AllProcs |-> NoCall]
    /\ frames = [p \in AllProcs |-> << >>]
    /\ exc = [p \in AllProcs |-> NoExc]
    /\ attempts = [p \in AllProcs |-> 0]
    /\ item = [p \in AllProcs |-> NoItem]
    /\ seen = [p \in AllProcs |-> NoFile]
    /\ pass = NoPass
    /\ listing = NoListing
    /\ batch = NoBatch
    /\ git = NoGit
    /\ norm = NoNorm
    /\ rate = NoRate
    /\ retry = NoRetry

\* the same with the key service of a production deployment
NothingRunning ==
    /\ AllIdleButAuth
    /\ auth = NoAuth

InitialMeta == [NoMeta EXCEPT !.done = "false"]

Init ==
    /\ files = [P \in AllPaths |-> IF P = X THEN CompleteFile(InitialMeta) ELSE NoFile]
    /\ now = 1
    /\ NothingRunning

----------------------------------------------------------------------------
(* FileLocker.acquire_write_lock and LockFile.acquire *)

\* Retrier.execute(lambda: lock_file.acquire()): lock_file.acquire is a
\* @contextmanager function, so the call only builds the context manager and runs
\* no line of its body; the operation cannot raise, and execute returns from its
\* first loop iteration.  The lock attempt itself happens afterwards, when the
\* `with` statement enters the returned context manager.
RetrierExecute(p) ==
    /\ pc[p] = "retrier"
    /\ attempts' = [attempts EXCEPT ![p] = 0]
    /\ pc' = [pc EXCEPT ![p] = "open"]
    /\ UNCHANGED <<files, tmp, lockDir, flockOwner, call, frames, exc, item, seen>>
    /\ UNCHANGED appVars
    /\ UNCHANGED svcVars

\* _ensure_lock_directory(); open(self.lock_path, "wb"): opens the file the name
\* refers to, creating a new one when the name does not exist
OpenLockFile(p) ==
    /\ pc[p] = "open"
    /\ LET L == LockTarget(p)
           ino == IF lockDir[L] # 0 THEN lockDir[L] ELSE FreshInode
       IN /\ lockDir' = [lockDir EXCEPT ![L] = ino]
          /\ frames' = [frames EXCEPT ![p] =
                           Append(@, [path |-> L, ino |-> ino, locked |-> FALSE])]
    /\ attempts' = [attempts EXCEPT ![p] = @ + 1]
    /\ pc' = [pc EXCEPT ![p] = "flock"]
    /\ UNCHANGED <<files, tmp, flockOwner, call, exc, item, seen>>
    /\ UNCHANGED appVars
    /\ UNCHANGED svcVars

\* platform_locker.lock_exclusive(lock_handle): flock(LOCK_EX | LOCK_NB) succeeds
\* when no other open handle holds the lock of the inode, else raises at once
LockExclusive(p) ==
    /\ pc[p] = "flock"
    /\ LET ino == Top(p).ino
           n == Len(frames[p])
       IN IF flockOwner[ino] = 0
          THEN /\ flockOwner' = [flockOwner EXCEPT ![ino] = p]
               /\ frames' = [frames EXCEPT ![p][n].locked = TRUE]
               /\ pc' = [pc EXCEPT ![p] = BodyEntry(p, n)]
               /\ exc' = exc
          ELSE /\ exc' = [exc EXCEPT ![p] = <<BlockingIOError>>]
               /\ pc' = [pc EXCEPT ![p] = "unlock"]
               /\ UNCHANGED <<flockOwner, frames>>
    /\ UNCHANGED <<files, tmp, lockDir, call, attempts, item, seen>>
    /\ UNCHANGED appVars
    /\ UNCHANGED svcVars

\* the faults a caller of the lock may meet: its own code raises, or the OS
\* refuses the unlock or the unlink of the lock file
BodyRaises(c) == c.fault \in {"body_raises", "body_raises_unlink_fails"}
UnlockFails(c) == c.fault = "unlock_fails"
UnlinkFails(c) == c.fault \in {"unlink_fails", "body_raises_unlink_fails"}

\* mutant: the OSError of a failed unlock or unlink leaves _release_and_cleanup
ReleaseFailureRaised(e, failed) ==
    IF failed THEN <<Exc("OSError", "release", NoPath, NoPath)>> ELSE e

\* `except OSError: logger.warning(...)` of _release_and_cleanup: the failure is
\* logged and the exception in flight, if any, stays the one in flight
ReleaseFailure(e, failed) == e

\* _release_and_cleanup, first half: platform_locker.unlock(lock_handle); when it
\* fails the handle keeps its flock until it is closed
Unlock(p) ==
    /\ pc[p] = "unlock"
    /\ LET ino == Top(p).ino
           n == Len(frames[p])
           failed == UnlockFails(call[p])
       IN /\ flockOwner' = IF flockOwner[ino] = p /\ ~failed
                           THEN [flockOwner EXCEPT ![ino] = 0]
                           ELSE flockOwner
          /\ frames' = IF failed THEN frames ELSE [frames EXCEPT ![p][n].locked = FALSE]
          /\ exc' = [exc EXCEPT ![p] = ReleaseFailure(@, failed)]
    /\ pc' = [pc EXCEPT ![p] = "unlink"]
    /\ UNCHANGED <<files, tmp, lockDir, call, attempts, item, seen>>
    /\ UNCHANGED appVars
    /\ UNCHANGED svcVars

\* _release_and_cleanup, second half: self.lock_path.unlink(missing_ok=True)
\* removes the name, whichever file it refers to by now, unless the OS refuses
UnlinkLockFile(p) ==
    /\ pc[p] = "unlink"
    /\ lockDir' = IF UnlinkFails(call[p]) THEN lockDir
                  ELSE [lockDir EXCEPT ![Top(p).path] = 0]
    /\ exc' = [exc EXCEPT ![p] = ReleaseFailure(@, UnlinkFails(call[p]))]
    /\ pc' = [pc EXCEPT ![p] = "close"]
    /\ UNCHANGED <<files, tmp, flockOwner, call, frames, attempts, item, seen>>
    /\ UNCHANGED appVars
    /\ UNCHANGED svcVars

\* `except Exception as e: raise VaultConcurrencyError(resource=str(file_path)) from e`
\* of acquire_write_lock: whatever exception leaves the `with` block is wrapped
WrapInAcquire(e, P) ==
    IF e = NoExc THEN NoExc ELSE <<VaultConcurrencyError(P)>> \o e

\* the except clauses of the VaultManager operation around the outermost lock
FinalExc(c, e) ==
    CASE c.op = "write_note" /\ e # NoExc ->
             <<VaultFileOperationError("write", c.path, NoPath)>> \o e
      [] c.op = "move_note" /\ e # NoExc /\ IsOSError(e[1]) ->
             <<VaultFileOperationError("move", c.path, c.dst)>> \o e
      [] c.op = "delete_note" /\ e # NoExc /\ IsOSError(e[1]) ->
             <<VaultFileOperationError("delete", c.path, NoPath)>> \o e
      [] OTHER -> e

\* mutant: source_path is assigned on every exit of the operation, failed or not
FinalItemOnEveryExit(c, it, e) ==
    CASE c.op = "write_note" -> [it EXCEPT !.source_path = c.path]
      [] c.op = "move_note" -> [it EXCEPT !.source_path = c.dst]
      [] OTHER -> it

\* item.source_path = file_path / dest_path after the `with` block ended normally
FinalItem(c, it, e) ==
    CASE c.op = "write_note" /\ e = NoExc -> [it EXCEPT !.source_path = c.path]
      [] c.op = "move_note" /\ e = NoExc -> [it EXCEPT !.source_path = c.dst]
      [] OTHER -> it

\* end of `with open(...) as lock_handle`: the handle is closed, which drops a
\* flock it still holds; then the exception, if any, leaves acquire_write_lock
CloseLockFile(p) ==
    /\ pc[p] = "close"
    /\ LET f == Top(p)
           rest == SubSeq(frames[p], 1, Len(frames[p]) - 1)
           e == WrapInAcquire(exc[p], f.path)
       IN /\ flockOwner' = IF flockOwner[f.ino] = p
                           THEN [flockOwner EXCEPT ![f.ino] = 0]
                           ELSE flockOwner
          /\ frames' = [frames EXCEPT ![p] = rest]
          /\ IF rest # << >>
             THEN /\ exc' = [exc EXCEPT ![p] = e]
                  /\ pc' = [pc EXCEPT ![p] = "unlock"]
                  /\ item' = item
             ELSE /\ exc' = [exc EXCEPT ![p] = FinalExc(call[p], e)]
                  /\ item' = [item EXCEPT ![p] = FinalItem(call[p], @, e)]
                  /\ pc' = [pc EXCEPT ![p] = "done"]
    /\ UNCHANGED <<files, tmp, lockDir, call, attempts, seen>>
    /\ UNCHANGED appVars
    /\ UNCHANGED svcVars

\* the caller's code inside `with file_locker.acquire_write_lock(P):`
CriticalSection(p) ==
    /\ pc[p] = "cs"
    /\ exc' = [exc EXCEPT ![p] = IF BodyRaises(call[p]) THEN <<BodyError>> ELSE NoExc]
    /\ pc' = [pc EXCEPT ![p] = "unlock"]
    /\ UNCHANGED <<files, tmp, lockDir, flockOwner, call, frames, attempts, item, seen>>
    /\ UNCHANGED appVars
    /\ UNCHANGED svcVars

\* a caller enters `with file_locker.acquire_write_lock(P):`
StartLock(p) ==
    /\ pc[p] = "idle"
    /\ \E f \in {"none", "body_raises"} :
          call' = [call EXCEPT ![p] = [NoCall EXCEPT !.op = "lock", !.path = X, !.fault = f]]
    /\ pc' = [pc EXCEPT ![p] = "retrier"]
    /\ UNCHANGED <<files, tmp, lockDir, flockOwner, frames, exc, attempts, item, seen>>
    /\ UNCHANGED appVars
    /\ UNCHANGED svcVars

\* the call has returned or raised; the caller drops its record and goes on
Return(p) ==
    /\ pc[p] = "done"
    /\ pc' = [pc EXCEPT ![p] = "idle"]
    /\ call' = [call EXCEPT ![p] = NoCall]
    /\ exc' = [exc EXCEPT ![p] = NoExc]
    /\ attempts' = [attempts EXCEPT ![p] = 0]
    /\ seen' = [seen EXCEPT ![p] = NoFile]
    /\ item' = [item EXCEPT ![p] = NoItem]
    /\ UNCHANGED <<files, tmp, lockDir, flockOwner, frames>>
    /\ UNCHANGED appVars
    /\ UNCHANGED svcVars

\* a caller enters `with file_locker.acquire_write_lock(P):` on a system where the
\* release of the lock file may fail
StartLockFaulty(p) ==
    /\ pc[p] = "idle"
    /\ \E f \in {"none", "body_raises", "unlock_fails", "unlink_fails",
                  "body_raises_unlink_fails"} :
          call' = [call EXCEPT ![p] = [NoCall EXCEPT !.op = "lock", !.path = X, !.fault = f]]
    /\ pc' = [pc EXCEPT ![p] = "retrier"]
    /\ UNCHANGED <<files, tmp, lockDir, flockOwner, frames, exc, attempts, item, seen>>
    /\ UNCHANGED appVars
    /\ UNCHANGED svcVars

LockStep(p) ==
    \/ RetrierExecute(p)
    \/ OpenLockFile(p)
    \/ LockExclusive(p)
    \/ Unlock(p)
    \/ UnlinkLockFile(p)
    \/ CloseLockFile(p)

NextLock ==
    \E p \in Procs :
        \/ StartLock(p)
        \/ CriticalSection(p)
        \/ LockStep(p)
        \/ Return(p)

SpecLock == Init /\ [][NextLock]_vars

\* Release specification: two contenders for the lock of one path, whose own code
\* may raise and whose unlock or unlink may be refused by the OS
NextRelease ==
    \E p \in Writers :
        \/ StartLockFaulty(p)
        \/ CriticalSection(p)
        \/ LockStep(p)
        \/ Return(p)

SpecRelease == Init /\ [][NextRelease]_vars

----------------------------------------------------------------------------
(* Record model: BaseItem / TaskItem *)

\* BaseItem._sync_from_frontmatter: a typed field takes the value of its key when
\* the metadata map holds the key, and keeps its default otherwise
SyncFromFrontmatter(it) ==
    [it EXCEPT !.done = IF it.fm.done # "absent" THEN it.fm.done ELSE @,
               !.completed_at = IF it.fm.completed_at # NoDate THEN it.fm.completed_at ELSE @,
               !.do_date = IF it.fm.do_date # NoDate THEN it.fm.do_date ELSE @,
               !.due_date = IF it.fm.due_date # NoDate THEN it.fm.due_date ELSE @,
               !.repeat_task = IF it.fm.repeat_task # "" THEN it.fm.repeat_task ELSE @,
               !.is_project = IF it.fm.is_project # "false" THEN it.fm.is_project ELSE @]

\* BaseItem._sync_to_frontmatter: every typed field is copied into the metadata map
SyncToFrontmatter(it) ==
    [it EXCEPT !.fm = [@ EXCEPT !.done = it.done, !.completed_at = it.completed_at,
                                !.do_date = it.do_date, !.due_date = it.due_date,
                                !.repeat_task = it.repeat_task,
                                !.is_project = it.is_project]]

\* TaskItem(title, done=d): __post_init__ syncs from an empty metadata map
NewTask(d) == SyncFromFrontmatter([NoItem EXCEPT !.done = d])

\* read_note: item_class(title=path.stem, frontmatter=post.metadata, source_path=path)
ItemFromFile(P, f) ==
    SyncFromFrontmatter([NoItem EXCEPT !.source_path = P, !.title = P.name,
                                       !.fm = f.meta, !.content = f.meta.content])

\* _write_item_to_file: frontmatter.dumps(Post(content, **item.frontmatter));
\* the metadata map is serialized as it stands
SerializeItem(it) == CompleteFile([it.fm EXCEPT !.content = it.content])

----------------------------------------------------------------------------
(* AtomicFileOperations.atomic_write *)

\* mutant: the file being written is opened at the target path itself
CreateTempFileAtTarget(p) ==
    /\ pc[p] = "mkstemp"
    /\ tmp' = [tmp EXCEPT ![p] = EmptyFile]
    /\ files' = [files EXCEPT ![call[p].path] = EmptyFile]
    /\ pc' = [pc EXCEPT ![p] = "produce"]
    /\ UNCHANGED <<lockDir, flockOwner, call, frames, exc, attempts, item, seen>>
    /\ UNCHANGED appVars
    /\ UNCHANGED svcVars

\* _create_temp_file: tempfile.mkstemp(dir=target.parent, prefix=".tmp_<name>_")
\* creates a new, empty, uniquely named file next to the target
CreateTempFile(p) ==
    /\ pc[p] = "mkstemp"
    /\ tmp' = [tmp EXCEPT ![p] = EmptyFile]
    /\ pc' = [pc EXCEPT ![p] = "produce"]
    /\ UNCHANGED <<files, lockDir, flockOwner, call, frames, exc, attempts, item, seen>>
    /\ UNCHANGED appVars
    /\ UNCHANGED svcVars

\* mutant: the commit runs on every exit of the body (try/finally for try/except)
AfterProduceAlwaysCommit(e) == "commit"

\* try: yield temp_path; _commit_write(...)  except Exception: _cleanup_temp_file(...); raise
AfterProduce(e) == IF e = NoExc THEN "commit" ELSE "cleanup"

\* the body of `with atomic_ops.atomic_write(P) as temp_path` of a caller that
\* fills the temporary file in two writes, and may fail before either
ProduceOpen(p) ==
    /\ pc[p] = "produce"
    /\ call[p].op = "atomic_write"
    /\ IF call[p].fault = "raise_open"
       THEN /\ exc' = [exc EXCEPT ![p] = <<ProducerOSError>>]
            /\ pc' = [pc EXCEPT ![p] = AfterProduce(exc'[p])]
            /\ tmp' = tmp
       ELSE /\ tmp' = [tmp EXCEPT ![p] = PartialFile(call[p].meta)]
            /\ pc' = [pc EXCEPT ![p] = "produce2"]
            /\ exc' = exc
    /\ UNCHANGED <<files, lockDir, flockOwner, call, frames, attempts, item, seen>>
    /\ UNCHANGED appVars
    /\ UNCHANGED svcVars

ProduceRest(p) ==
    /\ pc[p] = "produce2"
    /\ IF call[p].fault = "raise_mid"
       THEN /\ exc' = [exc EXCEPT ![p] = <<ProducerOSError>>]
            /\ tmp' = tmp
       ELSE /\ tmp' = [tmp EXCEPT ![p] = CompleteFile(call[p].meta)]
            /\ exc' = exc
    /\ pc' = [pc EXCEPT ![p] = AfterProduce(exc'[p])]
    /\ UNCHANGED <<files, lockDir, flockOwner, call, frames, attempts, item, seen>>
    /\ UNCHANGED appVars
    /\ UNCHANGED svcVars

\* _write_item_to_file(item, temp_path): file_path = path / f"{item.title}.md" names
\* an entry below temp_path, and temp_path is the regular file mkstemp made, so
\* open(file_path, "w") raises NotADirectoryError and nothing is written
WriteItemToFile(p) ==
    /\ pc[p] = "produce"
    /\ call[p].op = "write_note"
    /\ exc' = [exc EXCEPT ![p] =
                  IF tmp[p].state = "nofile" THEN <<FileNotFoundError>>
                  ELSE <<NotADirectoryError>>]
    /\ pc' = [pc EXCEPT ![p] = AfterProduce(exc'[p])]
    /\ UNCHANGED <<files, tmp, lockDir, flockOwner, call, frames, attempts, item, seen>>
    /\ UNCHANGED appVars
    /\ UNCHANGED svcVars

\* _commit_write: temp_path.replace(target_path), one rename
CommitWrite(p) ==
    /\ pc[p] = "commit"
    /\ files' = [files EXCEPT ![call[p].path] = tmp[p]]
    /\ tmp' = [tmp EXCEPT ![p] = NoFile]
    /\ pc' = [pc EXCEPT ![p] = "unlock"]
    /\ UNCHANGED <<lockDir, flockOwner, call, frames, exc, attempts, item, seen>>
    /\ UNCHANGED appVars
    /\ UNCHANGED svcVars

\* _cleanup_temp_file: temp_path.unlink(missing_ok=True); raise
CleanupTempFile(p) ==
    /\ pc[p] = "cleanup"
    /\ tmp' = [tmp EXCEPT ![p] = NoFile]
    /\ pc' = [pc EXCEPT ![p] = "unlock"]
    /\ UNCHANGED <<files, lockDir, flockOwner, call, frames, exc, attempts, item, seen>>
    /\ UNCHANGED appVars
    /\ UNCHANGED svcVars

NewMeta == [NoMeta EXCEPT !.done = "true"]

\* a caller enters `with atomic_ops.atomic_write(P) as temp_path:`
StartAtomicWrite(p) ==
    /\ pc[p] = "idle"
    /\ \E P \in Paths, f \in {"none", "raise_open", "raise_mid"} :
          call' = [call EXCEPT ![p] =
                      [NoCall EXCEPT !.op = "atomic_write", !.path = P, !.fault = f,
                                     !.meta = NewMeta]]
    /\ pc' = [pc EXCEPT ![p] = "retrier"]
    /\ UNCHANGED <<files, tmp, lockDir, flockOwner, frames, exc, attempts, item, seen>>
    /\ UNCHANGED appVars
    /\ UNCHANGED svcVars

----------------------------------------------------------------------------
(* VaultManager *)

\* write_note(item, target_dir): file_path = vault_path / target_dir / f"{title}.md".
\* The record is a new task, or a loaded one whose done field was set in memory.
StartWriteNote(p) ==
    /\ pc[p] = "idle"
    /\ \E dir \in Dirs, d \in DoneValues :
          /\ call' = [call EXCEPT ![p] =
                         [NoCall EXCEPT !.op = "write_note", !.path = RecordPath(dir, Title)]]
          /\ item' = [item EXCEPT ![p] = NewTask(d)]
    /\ pc' = [pc EXCEPT ![p] = "retrier"]
    /\ UNCHANGED <<files, tmp, lockDir, flockOwner, frames, exc, attempts, seen>>
    /\ UNCHANGED appVars
    /\ UNCHANGED svcVars

\* _resolve_destination_path: dest_dir / source_path.name
ResolveDestinationPath(dir, src) == RecordPath(dir, src.name)

\* move_note(item, destination_dir) on a record loaded from src
StartMoveNote(p) ==
    /\ pc[p] = "idle"
    /\ \E src \in Paths, dir \in Dirs :
          LET dst == ResolveDestinationPath(dir, src) IN
          /\ call' = [call EXCEPT ![p] =
                         [NoCall EXCEPT !.op = "move_note", !.path = src, !.dst = dst]]
          /\ item' = [item EXCEPT ![p] = [NoItem EXCEPT !.source_path = src]]
          /\ pc' = [pc EXCEPT ![p] = IF src = dst THEN "done" ELSE "retrier"]
    /\ UNCHANGED <<files, tmp, lockDir, flockOwner, frames, exc, attempts, seen>>
    /\ UNCHANGED appVars
    /\ UNCHANGED svcVars

\* source_path.replace(dest_path) under both locks
RenameNote(p) ==
    /\ pc[p] = "rename"
    /\ LET src == call[p].path
           dst == call[p].dst
       IN IF files[src].state = "nofile"
          THEN /\ exc' = [exc EXCEPT ![p] = <<FileNotFoundError>>]
               /\ files' = files
          ELSE /\ files' = [files EXCEPT ![dst] = files[src], ![src] = NoFile]
               /\ exc' = exc
    /\ pc' = [pc EXCEPT ![p] = "unlock"]
    /\ UNCHANGED <<tmp, lockDir, flockOwner, call, frames, attempts, item, seen>>
    /\ UNCHANGED appVars
    /\ UNCHANGED svcVars

\* delete_note(item) on a record loaded from src
StartDeleteNote(p) ==
    /\ pc[p] = "idle"
    /\ \E src \in Paths :
          /\ call' = [call EXCEPT ![p] = [NoCall EXCEPT !.op = "delete_note", !.path = src]]
          /\ item' = [item EXCEPT ![p] = [NoItem EXCEPT !.source_path = src]]
    /\ pc' = [pc EXCEPT ![p] = "retrier"]
    /\ UNCHANGED <<files, tmp, lockDir, flockOwner, frames, exc, attempts, seen>>
    /\ UNCHANGED appVars
    /\ UNCHANGED svcVars

\* file_path.unlink(); item.source_path = None
UnlinkNote(p) ==
    /\ pc[p] = "unlinkfile"
    /\ IF files[call[p].path].state = "nofile"
       THEN /\ exc' = [exc EXCEPT ![p] = <<FileNotFoundError>>]
            /\ UNCHANGED <<files, item>>
       ELSE /\ files' = [files EXCEPT ![call[p].path] = NoFile]
            /\ item' = [item EXCEPT ![p].source_path = NoPath]
            /\ exc' = exc
    /\ pc' = [pc EXCEPT ![p] = "unlock"]
    /\ UNCHANGED <<tmp, lockDir, flockOwner, call, frames, attempts, seen>>
    /\ UNCHANGED appVars
    /\ UNCHANGED svcVars

\* read_note(path), _atomic_read_note: `if not path.exists(): raise FileNotFoundError`;
\* acquire_read_lock takes no lock
StartReadNote(p) ==
    /\ pc[p] = "idle"
    /\ \E P \in Paths :
          /\ call' = [call EXCEPT ![p] = [NoCall EXCEPT !.op = "read_note", !.path = P]]
          /\ IF files[P].state = "nofile"
             THEN /\ exc' = [exc EXCEPT ![p] = <<FileNotFoundError>>]
                  /\ pc' = [pc EXCEPT ![p] = "done"]
             ELSE /\ exc' = exc
                  /\ pc' = [pc EXCEPT ![p] = "load"]
    /\ UNCHANGED <<files, tmp, lockDir, flockOwner, frames, attempts, item, seen>>
    /\ UNCHANGED appVars
    /\ UNCHANGED svcVars

\* open(path) and frontmatter.load(f); an OSError of the open is wrapped
LoadNote(p) ==
    /\ pc[p] = "load"
    /\ LET P == call[p].path IN
       IF files[P].state = "nofile"
       THEN /\ exc' = [exc EXCEPT ![p] =
                          <<VaultFileOperationError("read", P, NoPath), FileNotFoundError>>]
            /\ UNCHANGED <<seen, item>>
       ELSE /\ seen' = [seen EXCEPT ![p] = files[P]]
            /\ item' = [item EXCEPT ![p] = ItemFromFile(P, files[P])]
            /\ exc' = exc
    /\ pc' = [pc EXCEPT ![p] = "done"]
    /\ UNCHANGED <<files, tmp, lockDir, flockOwner, call, frames, attempts>>
    /\ UNCHANGED appVars
    /\ UNCHANGED svcVars

\* Vault specification: the VaultManager operations, called concurrently.
\* CommitWrite is not among its steps: write_note is the only caller of
\* atomic_write here and its producer, WriteItemToFile, raises on every call, so
\* AfterProduce never leads to the commit.
Next ==
    \E p \in Writers :
        \/ StartWriteNote(p)
        \/ StartMoveNote(p)
        \/ StartDeleteNote(p)
        \/ StartReadNote(p)
        \/ LoadNote(p)
        \/ LockStep(p)
        \/ CreateTempFile(p)
        \/ CleanupTempFile(p)
        \/ WriteItemToFile(p)
        \/ RenameNote(p)
        \/ UnlinkNote(p)
        \/ Return(p)

Spec == Init /\ [][Next]_vars

\* Writer specification: atomic_write with callers that fill the temporary file
\* (and may fail doing so), write_note, and readers of the target paths
NextWrite ==
    \E p \in Writers :
        \/ StartAtomicWrite(p)
        \/ StartWriteNote(p)
        \/ StartReadNote(p)
        \/ LoadNote(p)
        \/ LockStep(p)
        \/ CreateTempFile(p)
        \/ CommitWrite(p)
        \/ CleanupTempFile(p)
        \/ ProduceOpen(p)
        \/ ProduceRest(p)
        \/ WriteItemToFile(p)
        \/ Return(p)

SpecWrite == Init /\ [][NextWrite]_vars

\* Move specification: a vault holding the same title in both folders, and callers
\* that each make one move_note call
InitMove ==
    /\ files = [P \in AllPaths |->
                    IF P = X THEN CompleteFile(InitialMeta)
                    ELSE IF P = Y THEN CompleteFile(NewMeta) ELSE NoFile]
    /\ now = 1
    /\ NothingRunning

NextMove ==
    \E p \in Writers :
        \/ StartMoveNote(p)
        \/ LockStep(p)
        \/ RenameNote(p)

SpecMove == InitMove /\ [][NextMove]_vars

----------------------------------------------------------------------------
(* One caller working on a record it holds *)

Callers == {1}

\* mutant: the check of source_path is skipped
RequireSourcePathUnchecked(it) == NoExc

\* BaseItem.require_source_path: `if self.source_path is None: raise ValueError`
RequireSourcePath(it) == IF it.source_path = NoPath THEN <<ValueError>> ELSE NoExc

\* write_note(item, target_dir) up to the call of atomic_write
EnterWriteNote(p, it, dir) ==
    /\ item' = [item EXCEPT ![p] = it]
    /\ call' = [call EXCEPT ![p] =
                   [NoCall EXCEPT !.op = "write_note", !.path = RecordPath(dir, it.title)]]
    /\ exc' = [exc EXCEPT ![p] = NoExc]
    /\ pc' = [pc EXCEPT ![p] = "retrier"]

\* move_note(item, destination_dir) up to the call of _atomic_move_note:
\* require_source_path, _resolve_destination_path, `if source_path == dest_path: return`
EnterMoveNote(p, it, dir) ==
    LET e == RequireSourcePath(it)
        dst == IF it.source_path = NoPath THEN NoPath
               ELSE ResolveDestinationPath(dir, it.source_path)
    IN /\ item' = [item EXCEPT ![p] = it]
       /\ call' = [call EXCEPT ![p] =
                      [NoCall EXCEPT !.op = "move_note", !.path = it.source_path, !.dst = dst]]
       /\ exc' = [exc EXCEPT ![p] = e]
       /\ pc' = [pc EXCEPT ![p] =
                    IF e # NoExc \/ it.source_path = dst THEN "done" ELSE "retrier"]

\* delete_note(item) up to the call of _atomic_delete_note
EnterDeleteNote(p, it) ==
    LET e == RequireSourcePath(it)
    IN /\ item' = [item EXCEPT ![p] = it]
       /\ call' = [call EXCEPT ![p] =
                      [NoCall EXCEPT !.op = "delete_note", !.path = it.source_path]]
       /\ exc' = [exc EXCEPT ![p] = e]
       /\ pc' = [pc EXCEPT ![p] = IF e # NoExc THEN "done" ELSE "retrier"]

\* TaskItem(title, done=d): a record that was never saved
CallerNewTask(p) ==
    /\ pc[p] = "idle"
    /\ \E d \in DoneValues : item' = [item EXCEPT ![p] = NewTask(d)]
    /\ UNCHANGED <<files, tmp, lockDir, flockOwner, pc, call, frames, exc, attempts, seen>>
    /\ UNCHANGED appVars
    /\ UNCHANGED svcVars

CallerWriteNote(p) ==
    /\ pc[p] = "idle"
    /\ \E dir \in Dirs : EnterWriteNote(p, item[p], dir)
    /\ UNCHANGED <<files, tmp, lockDir, flockOwner, frames, attempts, seen>>
    /\ UNCHANGED appVars
    /\ UNCHANGED svcVars

CallerMoveNote(p) ==
    /\ pc[p] = "idle"
    /\ \E dir \in Dirs : EnterMoveNote(p, item[p], dir)
    /\ UNCHANGED <<files, tmp, lockDir, flockOwner, frames, attempts, seen>>
    /\ UNCHANGED appVars
    /\ UNCHANGED svcVars

CallerDeleteNote(p) ==
    /\ pc[p] = "idle"
    /\ EnterDeleteNote(p, item[p])
    /\ UNCHANGED <<files, tmp, lockDir, flockOwner, frames, attempts, seen>>
    /\ UNCHANGED appVars
    /\ UNCHANGED svcVars

\* the call has returned or raised; the caller keeps its record
ReturnToCaller(p) ==
    /\ pc[p] = "done"
    /\ pc' = [pc EXCEPT ![p] = "idle"]
    /\ call' = [call EXCEPT ![p] = NoCall]
    /\ exc' = [exc EXCEPT ![p] = NoExc]
    /\ attempts' = [attempts EXCEPT ![p] = 0]
    /\ seen' = [seen EXCEPT ![p] = NoFile]
    /\ UNCHANGED <<files, tmp, lockDir, flockOwner, frames, item>>
    /\ UNCHANGED appVars
    /\ UNCHANGED svcVars

\* Caller specification: one caller creates or loads a record and then calls
\* write_note, move_note and delete_note on it in any order, one call at a time
NextCaller ==
    \E p \in Callers :
        \/ CallerNewTask(p)
        \/ StartReadNote(p)
        \/ LoadNote(p)
        \/ CallerWriteNote(p)
        \/ CallerMoveNote(p)
        \/ CallerDeleteNote(p)
        \/ LockStep(p)
        \/ CreateTempFile(p)
        \/ CleanupTempFile(p)
        \/ WriteItemToFile(p)
        \/ RenameNote(p)
        \/ UnlinkNote(p)
        \/ ReturnToCaller(p)

SpecCaller == Init /\ [][NextCaller]_vars

----------------------------------------------------------------------------
(* VaultManager.get_notes *)

\* a file whose metadata block is not valid YAML
MalformedFile == [state |-> "malformed", meta |-> NoMeta]

\* yaml.YAMLError, raised by frontmatter.load; it is not an OSError
YAMLError == Exc("YAMLError", "", NoPath, NoPath)

\* the datetime fields of TaskItem
HasBadDate(m) == BadDate \in {m.completed_at, m.do_date, m.due_date}

\* what read_note(P, TaskItem) raises on content f: the existence check of
\* _atomic_read_note, then frontmatter.load, then TaskItem.__post_init__, whose
\* _sync_from_frontmatter parses every datetime key of the metadata map
ReadNoteOutcome(P, f) ==
    CASE f.state = "nofile" -> <<FileNotFoundError>>
      [] f.state = "malformed" -> <<YAMLError>>
      [] f.state = "complete" /\ HasBadDate(f.meta) -> <<ValueError>>
      [] OTHER -> NoExc

\* `except (FileNotFoundError, VaultFileOperationError)` of get_notes
SkippedByGetNotes(e) == Head(e).type \in {"FileNotFoundError", "VaultFileOperationError"}

\* the files of the tasks folder
FolderPaths == {X, M}

\* the orders in which item_path.glob("*.md") may yield the files it finds
GlobOrders ==
    LET found == {P \in FolderPaths : files[P].state # "nofile"}
    IN {s \in UNION {[1..n -> found] : n \in 0..Cardinality(found)} :
            /\ Len(s) = Cardinality(found)
            /\ \A i, j \in 1..Len(s) : i # j => s[i] # s[j]}

\* get_notes(folder, TaskItem) up to the first read
GetNotes ==
    /\ listing.phase = "idle"
    /\ \E s \in GlobOrders :
          listing' = [NoListing EXCEPT !.phase = IF s = << >> THEN "done" ELSE "reading",
                                       !.todo = s]
    /\ UNCHANGED <<files, tmp, lockDir, flockOwner, pc, call, frames, exc, attempts, item,
                   seen, now, pass>>
    /\ UNCHANGED svcVars

\* one turn of the loop: items.append(self.read_note(file, return_item)) inside
\* the try block
ReadNextNote ==
    /\ listing.phase = "reading"
    /\ LET P == Head(listing.todo)
           rest == Tail(listing.todo)
           e == ReadNoteOutcome(P, files[P])
           after == IF rest = << >> THEN "done" ELSE "reading"
       IN listing' =
            IF e = NoExc
            THEN [listing EXCEPT !.todo = rest, !.phase = after,
                                 !.items = Append(@, ItemFromFile(P, files[P]))]
            ELSE IF SkippedByGetNotes(e)
            THEN [listing EXCEPT !.todo = rest, !.phase = after]
            ELSE [listing EXCEPT !.phase = "done", !.exc = e]
    /\ UNCHANGED <<files, tmp, lockDir, flockOwner, pc, call, frames, exc, attempts, item,
                   seen, now, pass>>
    /\ UNCHANGED svcVars

\* get_notes has returned or raised; the caller goes on
ListingReturn ==
    /\ listing.phase = "done"
    /\ listing' = NoListing
    /\ UNCHANGED <<files, tmp, lockDir, flockOwner, pc, call, frames, exc, attempts, item,
                   seen, now, pass>>
    /\ UNCHANGED svcVars

\* contents a file of the vault may have when the listing starts
GoodMetas == {InitialMeta, NewMeta}
FolderFiles ==
    {NoFile, MalformedFile, CompleteFile([InitialMeta EXCEPT !.do_date = BadDate])}
        \cup {CompleteFile(m) : m \in GoodMetas}

InitListing ==
    /\ \E fx, fm \in FolderFiles :
          files = [P \in AllPaths |-> IF P = X THEN fx ELSE IF P = M THEN fm ELSE NoFile]
    /\ now = 1
    /\ NothingRunning

\* the process that deletes a record while the folder is being listed
Deleters == {2}

\* Listing specification: get_notes over a folder of two files, any of them
\* unreadable as a task, while another process may delete the record n
NextListing ==
    \/ GetNotes
    \/ ReadNextNote
    \/ ListingReturn
    \/ \E p \in Deleters :
          \/ StartDeleteNote(p)
          \/ LockStep(p)
          \/ UnlinkNote(p)
          \/ Return(p)

SpecListing == InitListing /\ [][NextListing]_vars

----------------------------------------------------------------------------
(* TaskProcessor and the TaskService batches that call it *)

\* config.get("retent_for_days", 14): days a completed task is kept
RetentForDays == 1

\* repeat_task: none, or the cron expression of a task that recurs every midnight
DailyCron == "0 0 * * *"
RepeatValues == {"", DailyCron}

\* get_last_occurrence: croniter(repeat_task, now).get_prev, the midnight that began today
LastOccurrence(d) == d

\* get_next_occurrence: the date of croniter(repeat_task, now).get_next, tomorrow
NextOccurrence(d) == d + 1

\* mutant: the test of completed_at is inverted, so an unset one is never filled
FillCompletedAtWhenSet(t, d) ==
    IF t.done = "true" /\ t.completed_at # NoDate THEN [t EXCEPT !.completed_at = d] ELSE t

\* `if task.done and not task.completed_at: task.completed_at = datetime.now()`
FillCompletedAt(t, d) ==
    IF t.done = "true" /\ t.completed_at = NoDate THEN [t EXCEPT !.completed_at = d] ELSE t

\* mutant: the reactivation test asks for a done task
CompletedAndDone(t) == t.completed_at # NoDate /\ t.done = "true"

\* `if task.completed_at and not task.done`
CompletedButNotDone(t) == t.completed_at # NoDate /\ t.done # "true"

\* mutant: completed_at is kept when the task is not done
KeepCompletedAt(t) == t

\* `task.completed_at = None` of both methods
ClearCompletedAt(t) == [t EXCEPT !.completed_at = NoDate]

\* mutant: the do_date is set to today whatever it was
DoDateToday(t, d) == [t EXCEPT !.do_date = d]

\* lines 49-58 of process_active_task: a missing or past do_date becomes today
NormalizeDoDate(t, d) ==
    [t EXCEPT !.do_date = IF @ = NoDate \/ @ < d THEN d ELSE @]

\* reset_repeating_task up to save_task: the due date keeps its distance from the
\* last occurrence, the do date is the next occurrence, the task is open again
ResetRepeatingTask(t, d) ==
    [t EXCEPT !.due_date = IF @ # NoDate
                           THEN NextOccurrence(d) + (@ - LastOccurrence(d))
                           ELSE NoDate,
              !.do_date = NextOccurrence(d),
              !.done = "false",
              !.completed_at = NoDate]

\* mutant: the flip is made when the body is empty and the task is not a project,
\* or the body is not empty and the task is one
UpdateIsProjectInverted(t) ==
    IF (t.content = "") = (t.is_project # "true")
    THEN [t EXCEPT !.is_project = IF @ = "true" THEN "false" ELSE "true"]
    ELSE t

\* `if (task.content == "") == task.is_project: task.is_project = not task.is_project`
UpdateIsProject(t) ==
    IF (t.content = "") = (t.is_project = "true")
    THEN [t EXCEPT !.is_project = IF @ = "true" THEN "false" ELSE "true"]
    ELSE t

\* the over-retention test of process_completed_task
OverRetented(t, d) ==
    /\ t.done = "true"
    /\ t.completed_at # NoDate
    /\ d - t.completed_at > RetentForDays

\* archive_task: ArchiveItem(title=task.title, content=callout + task.content, ...)
NewArchiveItem(t) == [NoItem EXCEPT !.title = t.title, !.content = "callout"]

\* the task of the folder as get_tasks_from_folder loads it
LoadedTask(P) == ItemFromFile(P, files[P])

\* process_active_task(task, config) up to its repository call; ps is the record
\* of the call
ProcessActiveOn(p, t0, ps) ==
    LET t1 == FillCompletedAt(t0, now)
        t2 == IF CompletedButNotDone(t1) THEN ClearCompletedAt(t1) ELSE t1
    IN IF t0.done = "true" /\ t0.repeat_task # ""
       THEN /\ EnterWriteNote(p, ResetRepeatingTask(t0, now), TasksDir)
            /\ pass' = [ps EXCEPT !.kind = "active", !.phase = "vault", !.loaded = t0]
       ELSE IF t2.done = "true" /\ t2.completed_at # NoDate
       THEN /\ EnterMoveNote(p, t2, CompletedDir)
            /\ pass' = [ps EXCEPT !.kind = "active", !.phase = "vault", !.loaded = t0,
                                  !.markedAt = t2.completed_at]
       ELSE /\ EnterWriteNote(p, NormalizeDoDate(t2, now), TasksDir)
            /\ pass' = [ps EXCEPT !.kind = "active", !.phase = "vault", !.loaded = t0]

\* process_active_task on the task of the tasks folder as the batch loaded it
ProcessActiveTask(p) ==
    /\ pc[p] = "idle"
    /\ pass.phase = "idle"
    /\ files[X].state = "complete"
    /\ ProcessActiveOn(p, LoadedTask(X), pass)
    /\ UNCHANGED <<files, tmp, lockDir, flockOwner, frames, attempts, seen, now, listing>>
    /\ UNCHANGED svcVars

\* process_active_task once more on the task object the call before worked on,
\* on the same day and with the vault as that call left it
ProcessActiveAgain(p) ==
    /\ pc[p] = "done"
    /\ pass.kind = "active"
    /\ pass.phase \in {"returned", "raised"}
    /\ ~pass.again
    /\ ProcessActiveOn(p, item[p],
                       [pass EXCEPT !.again = TRUE, !.first = item[p], !.firstFiles = files])
    /\ UNCHANGED <<files, tmp, lockDir, flockOwner, frames, attempts, seen, now, listing>>
    /\ UNCHANGED svcVars

\* process_completed_task(task, config, retent_for_days) up to its repository
\* call or, when it makes none, its return; ps is the record of the call
ProcessCompletedOn(p, t0, ps) ==
    LET t1 == FillCompletedAt(t0, now)
        t2 == UpdateIsProject(t1)
    IN IF CompletedButNotDone(t1)
       THEN /\ EnterMoveNote(p, ClearCompletedAt(t1), TasksDir)
            /\ pass' = [ps EXCEPT !.kind = "completed", !.phase = "vault", !.loaded = t0]
       ELSE IF OverRetented(t2, now) /\ t2.is_project # "true"
       THEN /\ EnterDeleteNote(p, t2)
            /\ pass' = [ps EXCEPT !.kind = "completed", !.phase = "vault", !.loaded = t0]
       ELSE IF OverRetented(t2, now)
       THEN /\ EnterWriteNote(p, NewArchiveItem(t2), ArchiveDir)
            /\ pass' = [ps EXCEPT !.kind = "completed", !.phase = "archiving",
                                  !.loaded = t0, !.task = t2]
       ELSE /\ item' = [item EXCEPT ![p] = t2]
            /\ pc' = [pc EXCEPT ![p] = "done"]
            /\ UNCHANGED <<call, exc>>
            /\ pass' = [ps EXCEPT !.kind = "completed", !.phase = "vault", !.loaded = t0]

\* process_completed_task on the task of the completed folder as the batch loaded it
ProcessCompletedTask(p) ==
    /\ pc[p] = "idle"
    /\ pass.phase = "idle"
    /\ files[Y].state = "complete"
    /\ ProcessCompletedOn(p, LoadedTask(Y), pass)
    /\ UNCHANGED <<files, tmp, lockDir, flockOwner, frames, attempts, seen, now, listing>>
    /\ UNCHANGED svcVars

\* mutant: archive_task deletes the original whether archive_item returned or raised
DeleteWhateverArchiveDid(e) == TRUE

\* archive_task: `archive_item(...)` then `delete_task(task)`: the second
\* statement runs only when the first returned
ArchiveItemReturned(e) == e = NoExc

\* the repository call is over: archive_task goes on to delete_task when
\* archive_item returned; otherwise the method returns the task, or the
\* exception of the call leaves it
ProcessReturn(p) ==
    /\ pc[p] = "done"
    /\ pass.phase \in {"vault", "archiving"}
    /\ IF pass.phase = "archiving" /\ ArchiveItemReturned(exc[p])
       THEN /\ EnterDeleteNote(p, pass.task)
            /\ pass' = [pass EXCEPT !.phase = "vault", !.task = NoItem]
       ELSE /\ pass' = [pass EXCEPT !.phase = IF exc[p] = NoExc THEN "returned" ELSE "raised",
                                    !.task = NoItem]
            /\ item' = [item EXCEPT ![p] = IF pass.phase = "archiving" THEN pass.task ELSE @]
            /\ UNCHANGED <<pc, call, exc>>
    /\ UNCHANGED <<files, tmp, lockDir, flockOwner, frames, attempts, seen, now, listing>>
    /\ UNCHANGED svcVars

\* the batch loop goes on: `processed_count += 1`, or `except Exception: continue`
EndPass(p) ==
    /\ pc[p] = "done"
    /\ pass.phase \in {"returned", "raised"}
    /\ pass' = [NoPass EXCEPT !.markedAt = pass.markedAt]
    /\ pc' = [pc EXCEPT ![p] = "idle"]
    /\ call' = [call EXCEPT ![p] = NoCall]
    /\ exc' = [exc EXCEPT ![p] = NoExc]
    /\ attempts' = [attempts EXCEPT ![p] = 0]
    /\ item' = [item EXCEPT ![p] = NoItem]
    /\ UNCHANGED <<files, tmp, lockDir, flockOwner, frames, seen, now, listing>>
    /\ UNCHANGED svcVars

\* a day goes by between two batches
Tick ==
    /\ now < MaxDay
    /\ pass.phase = "idle"
    /\ now' = now + 1
    /\ UNCHANGED <<files, tmp, lockDir, flockOwner, pc, call, frames, exc, attempts, item,
                   seen, pass, listing>>
    /\ UNCHANGED svcVars

\* the metadata and body a task file of the vault may hold
DateValues == {NoDate} \cup Days
TaskMetas ==
    [done : DoneValues, completed_at : DateValues, do_date : DateValues,
     due_date : DateValues, repeat_task : RepeatValues, is_project : DoneValues,
     content : {"", "text"}]

\* a vault holding one task, in the tasks folder or in the completed folder
InitProcessor ==
    /\ \E P \in Paths, m \in TaskMetas :
          files = [Q \in AllPaths |-> IF Q = P THEN CompleteFile(m) ELSE NoFile]
    /\ now = 1
    /\ NothingRunning

\* Processor specification: the one service process runs process_active_tasks and
\* process_completed_tasks batches over the vault, in any order, as days go by
NextProcessor ==
    \/ Tick
    \/ \E p \in Callers :
          \/ ProcessActiveTask(p)
          \/ ProcessActiveAgain(p)
          \/ ProcessCompletedTask(p)
          \/ ProcessReturn(p)
          \/ EndPass(p)
          \/ LockStep(p)
          \/ CreateTempFile(p)
          \/ CleanupTempFile(p)
          \/ WriteItemToFile(p)
          \/ RenameNote(p)
          \/ UnlinkNote(p)

SpecProcessor == InitProcessor /\ [][NextProcessor]_vars

----------------------------------------------------------------------------
(* TaskApplicationService: the batch loops *)

\* the *.md files of the folder a batch lists: config["tasks"] or
\* config["completed_tasks"]
BatchPaths(kind) == IF kind = "active" THEN {X, M} ELSE {Y, YM}

\* the orders in which glob may return a set of files
BatchOrders(S) ==
    {q \in [1..Cardinality(S) -> S] : \A i, j \in 1..Cardinality(S) : q[i] = q[j] => i = j}

\* mutant: the first task that fails ends the loop
AbortAfterError(q) == << >>

\* `except Exception as e: logger.error(...); continue`: the loop goes on with
\* the tasks that are left
ContinueAfterError(q) == q

\* process_active_tasks / process_completed_tasks without a git repository:
\* get_tasks_from_folder loads every task of the folder, processed_count = 0
StartBatch(p) ==
    /\ batch.phase = "idle"
    /\ pc[p] = "idle"
    /\ pass.phase = "idle"
    /\ \E kind \in {"active", "completed"} :
          LET S == {P \in BatchPaths(kind) : files[P].state = "complete"}
          IN \E q \in BatchOrders(S) :
                batch' = [NoBatch EXCEPT !.kind = kind, !.phase = "running",
                                         !.queue = [i \in 1..Cardinality(S) |-> LoadedTask(q[i])],
                                         !.listed = q]
    /\ UNCHANGED <<files, tmp, lockDir, flockOwner, pc, call, frames, exc, attempts, item,
                   seen, now, pass, listing>>
    /\ UNCHANGED exceptBatch

\* `for task in tasks: try: self.task_processor.process_..._task(task, ...)`
BatchNext(p) ==
    /\ batch.phase = "running"
    /\ batch.queue # << >>
    /\ pc[p] = "idle"
    /\ pass.phase = "idle"
    /\ LET t == Head(batch.queue)
       IN /\ IF batch.kind = "active"
             THEN ProcessActiveOn(p, t, pass)
             ELSE ProcessCompletedOn(p, t, pass)
          /\ batch' = [batch EXCEPT !.queue = Tail(@),
                                    !.handled = Append(@, t.source_path)]
    /\ UNCHANGED <<files, tmp, lockDir, flockOwner, frames, attempts, seen, now, listing>>
    /\ UNCHANGED exceptBatch

\* the call of the processor is over: `processed_count += 1` when it returned,
\* the except clause when it raised
BatchEndPass(p) ==
    /\ batch.phase = "running"
    /\ pc[p] = "done"
    /\ pass.phase \in {"returned", "raised"}
    /\ batch' = IF pass.phase = "returned"
                THEN [batch EXCEPT !.count = @ + 1, !.outcomes = Append(@, "ok")]
                ELSE [batch EXCEPT !.queue = ContinueAfterError(@),
                                   !.outcomes = Append(@, "error")]
    /\ pass' = [NoPass EXCEPT !.markedAt = pass.markedAt]
    /\ pc' = [pc EXCEPT ![p] = "idle"]
    /\ call' = [call EXCEPT ![p] = NoCall]
    /\ exc' = [exc EXCEPT ![p] = NoExc]
    /\ attempts' = [attempts EXCEPT ![p] = 0]
    /\ item' = [item EXCEPT ![p] = NoItem]
    /\ UNCHANGED <<files, tmp, lockDir, flockOwner, frames, seen, now, listing>>
    /\ UNCHANGED exceptBatch

\* `return ProcessingResponse(processed=processed_count, ...)`
BatchReturn(p) ==
    /\ batch.phase = "running"
    /\ batch.queue = << >>
    /\ pc[p] = "idle"
    /\ pass.phase = "idle"
    /\ batch' = [batch EXCEPT !.phase = "returned"]
    /\ UNCHANGED <<files, tmp, lockDir, flockOwner, pc, call, frames, exc, attempts, item,
                   seen, now, pass, listing>>
    /\ UNCHANGED exceptBatch

\* the service is ready for the next request
BatchDone ==
    /\ batch.phase = "returned"
    /\ batch' = NoBatch
    /\ UNCHANGED <<files, tmp, lockDir, flockOwner, pc, call, frames, exc, attempts, item,
                   seen, now, pass, listing>>
    /\ UNCHANGED exceptBatch

\* the tasks a batch may find: done or not, recurring or not, completed on day 1
\* or without completed_at, project or not, with or without body
BatchMetas ==
    {m \in TaskMetas : /\ m.do_date = NoDate
                       /\ m.due_date = NoDate
                       /\ m.completed_at \in {NoDate, 1}}

\* a vault holding two tasks in the same folder, on the last day
InitBatch ==
    /\ \E kind \in {"active", "completed"}, m1, m2 \in BatchMetas :
          LET n1 == IF kind = "active" THEN X ELSE Y
              n2 == IF kind = "active" THEN M ELSE YM
          IN files = [P \in AllPaths |-> IF P = n1 THEN CompleteFile(m1)
                                         ELSE IF P = n2 THEN CompleteFile(m2) ELSE NoFile]
    /\ now = MaxDay
    /\ NothingRunning

\* Batch specification: the one service process runs batches over the two
\* folders, one after the other
NextBatch ==
    \/ BatchDone
    \/ \E p \in Callers :
          \/ StartBatch(p)
          \/ BatchNext(p)
          \/ ProcessReturn(p)
          \/ BatchEndPass(p)
          \/ BatchReturn(p)
          \/ LockStep(p)
          \/ CreateTempFile(p)
          \/ CleanupTempFile(p)
          \/ WriteItemToFile(p)
          \/ RenameNote(p)
          \/ UnlinkNote(p)

SpecBatch == InitBatch /\ [][NextBatch]_vars

----------------------------------------------------------------------------
(* GitManager.batch_sync and GitRepositoryAdapter.with_batch_sync *)

\* commits the repository may collect
MaxCommits == 2

\* what an operation may return
OpValues == {1, 2}

\* calls to commit_changes and batch_sync the body of a batch may make
MaxInner == 2

\* `with self.git_manager.batch_sync(): return operation_func()`: batch_sync is
\* called without a commit message
WithBatchSync ==
    /\ git.phase = "idle"
    /\ git.local < MaxCommits
    /\ git' = [git EXCEPT !.phase = "entered", !.caller = "adapter", !.message = "none"]
    /\ UNCHANGED exceptGit

\* `with git_manager.batch_sync(commit_message):` of a caller that passes a message
BatchSyncWithMessage ==
    /\ git.phase = "idle"
    /\ git.local < MaxCommits
    /\ git' = [git EXCEPT !.phase = "entered", !.caller = "direct", !.message = "given"]
    /\ UNCHANGED exceptGit

\* DateService.now_timestamp_str(): the class has no attribute of that name
NowTimestampStr == "AttributeError"

\* batch_sync up to pull_latest: the nested case yields at once; without a
\* message the default one is built from DateService.now_timestamp_str()
EnterBatchSync ==
    /\ git.phase = "entered"
    /\ git' = IF git.batch_mode
              THEN [git EXCEPT !.phase = "running"]
              ELSE IF git.message = "none"
              THEN [git EXCEPT !.phase = "raised", !.exc = NowTimestampStr]
              ELSE [git EXCEPT !.phase = "pull"]
    /\ UNCHANGED exceptGit

\* pull_latest: refused on a dirty tree, else origin.pull() succeeds or raises
\* GitCommandError, which is caught; then `self._batch_mode = True` and the yield
PullLatest ==
    /\ git.phase = "pull"
    /\ \E ok \in BOOLEAN :
          git' = [git EXCEPT !.log = Append(@, IF git.dirty THEN "pull_refused"
                                               ELSE IF ok THEN "pull" ELSE "pull_failed"),
                             !.batch_mode = TRUE,
                             !.phase = "running"]
    /\ UNCHANGED exceptGit

\* mutant: commit_changes commits whether a batch is running or not
NeverDeferred(batchMode) == FALSE

\* `if self._batch_mode: ... return None` of commit_changes
Deferred(batchMode) == batchMode

\* commit_changes(message), called by the body of a batch or outside any batch:
\* deferred in batch mode, else _do_commit, which commits what there is to commit
CommitChanges ==
    /\ \/ git.phase = "running" /\ git.inner < MaxInner
       \/ git.phase = "idle" /\ git.dirty
    /\ git.local < MaxCommits
    /\ \E pushOk \in BOOLEAN :
          LET inBody == git.phase = "running"
              done == IF Deferred(git.batch_mode) THEN <<"commit_deferred">>
                      ELSE IF ~git.dirty THEN <<"nothing_to_commit">>
                      ELSE <<"commit", IF pushOk THEN "push" ELSE "push_failed">>
              commits == done[1] = "commit"
          IN git' = [git EXCEPT !.log = IF inBody THEN @ \o done ELSE @,
                                !.inner = IF inBody THEN @ + 1 ELSE @,
                                !.dirty = IF commits THEN FALSE ELSE @,
                                !.local = IF commits THEN @ + 1 ELSE @,
                                !.pushed = IF commits /\ pushOk THEN git.local + 1 ELSE @]
    /\ UNCHANGED exceptGit

\* the body of a batch writes to a file of the vault before it goes on
BodyChangesFiles ==
    /\ git.phase = "running"
    /\ ~git.dirty
    /\ git' = [git EXCEPT !.dirty = TRUE]
    /\ UNCHANGED exceptGit

\* a batch_sync inside the body of a running batch: `if self._batch_mode: yield;
\* return`, the block is entered with nothing pulled and the flag untouched
NestedBatchSync ==
    /\ git.phase = "running"
    /\ git.batch_mode
    /\ git.inner < MaxInner
    /\ git' = [git EXCEPT !.depth = @ + 1, !.inner = @ + 1, !.log = Append(@, "nested_enter")]
    /\ UNCHANGED exceptGit

\* the nested block ends: the `return` after the yield, nothing is committed
NestedExit ==
    /\ git.phase = "running"
    /\ git.depth > 0
    /\ git' = [git EXCEPT !.depth = @ - 1, !.log = Append(@, "nested_exit")]
    /\ UNCHANGED exceptGit

\* the body of the with statement: operation_func() changes files or not, and
\* returns a value, once its nested blocks are closed, or raises, which also
\* leaves every nested block; `except Exception: raise` and
\* `finally: self._batch_mode = False`
RunOperation ==
    /\ git.phase = "running"
    /\ \E changes \in BOOLEAN, out \in OpValues \cup {0} :
          /\ out # 0 => git.depth = 0
          /\ git' = IF out = 0
                    THEN [git EXCEPT !.log = Append(@, "op"),
                                     !.dirty = @ \/ changes,
                                     !.depth = 0,
                                     !.batch_mode = FALSE,
                                     !.phase = "raised", !.exc = "OperationError"]
                    ELSE [git EXCEPT !.log = Append(@, "op"),
                                     !.dirty = @ \/ changes,
                                     !.value = out,
                                     !.phase = "commit"]
    /\ UNCHANGED exceptGit

\* _do_commit(commit_message): nothing to commit, or a commit followed by
\* _push_to_remote, whose failure is swallowed, or GitCommandError raised as
\* VaultGitOperationError; then the finally clause, and the caller's return
DoCommit ==
    /\ git.phase = "commit"
    /\ \E committed, pushOk \in BOOLEAN :
          git' = IF ~git.dirty
                 THEN [git EXCEPT !.log = Append(@, "nothing_to_commit"),
                                  !.batch_mode = FALSE,
                                  !.phase = "returned", !.result = git.value]
                 ELSE IF ~committed
                 THEN [git EXCEPT !.log = Append(@, "commit_failed"),
                                  !.batch_mode = FALSE,
                                  !.phase = "raised", !.exc = "VaultGitOperationError"]
                 ELSE [git EXCEPT !.log = @ \o <<"commit", IF pushOk THEN "push" ELSE "push_failed">>,
                                  !.dirty = FALSE,
                                  !.local = @ + 1,
                                  !.pushed = IF pushOk THEN git.local + 1 ELSE @,
                                  !.batch_mode = FALSE,
                                  !.phase = "returned", !.result = git.value]
    /\ UNCHANGED exceptGit

\* the caller has its value or its exception
GitReturn ==
    /\ git.phase \in {"returned", "raised"}
    /\ git' = [NoGit EXCEPT !.dirty = git.dirty, !.local = git.local, !.pushed = git.pushed]
    /\ UNCHANGED exceptGit

\* Git specification: one caller after the other syncs a batch, through the
\* adapter or with a commit message of its own
NextGit ==
    \/ WithBatchSync
    \/ BatchSyncWithMessage
    \/ EnterBatchSync
    \/ PullLatest
    \/ CommitChanges
    \/ BodyChangesFiles
    \/ NestedBatchSync
    \/ NestedExit
    \/ RunOperation
    \/ DoCommit
    \/ GitReturn

SpecGit == Init /\ [][NextGit]_vars

----------------------------------------------------------------------------
(* TaskApplicationService with a git repository *)

\* process_active_tasks / process_completed_tasks with self.git_repository set:
\* get_tasks_from_folder loads every task of the folder, and then
\* with_batch_sync(process_batch) is called with the loaded list in its closure
StartSyncedBatch(p) ==
    /\ batch.phase = "idle"
    /\ git.phase = "idle"
    /\ pc[p] = "idle"
    /\ pass.phase = "idle"
    /\ \E kind \in {"active", "completed"} :
          LET S == {P \in BatchPaths(kind) : files[P].state = "complete"}
          IN \E q \in BatchOrders(S) :
                batch' = [NoBatch EXCEPT !.kind = kind, !.phase = "running",
                                         !.queue = [i \in 1..Cardinality(S) |-> LoadedTask(q[i])],
                                         !.listed = q]
    /\ git' = [git EXCEPT !.phase = "entered", !.caller = "service", !.message = "none"]
    /\ UNCHANGED <<files, tmp, lockDir, flockOwner, pc, call, frames, exc, attempts, item,
                   seen, now, pass, listing>>
    /\ UNCHANGED <<norm, rate, auth, retry>>

\* the exception of with_batch_sync leaves the service method: the loaded list
\* is dropped and nothing was processed
SyncedBatchRaised ==
    /\ batch.phase = "running"
    /\ git.caller = "service"
    /\ git.phase = "raised"
    /\ batch' = NoBatch
    /\ git' = [NoGit EXCEPT !.dirty = git.dirty, !.local = git.local, !.pushed = git.pushed]
    /\ UNCHANGED <<vaultVars, appVars, norm, rate, auth, retry>>

\* Synced batch specification: the one service process, configured with a git
\* repository, runs batches over a vault of two tasks
NextSync ==
    \/ EnterBatchSync
    \/ SyncedBatchRaised
    \/ \E p \in Callers : StartSyncedBatch(p)

SpecSync == InitBatch /\ [][NextSync]_vars

----------------------------------------------------------------------------
(* DateService.normalize_for_field *)

\* parse_datevalue_to_parseddate: strptime with "%Y-%m-%dT%H:%M:%S",
\* "%Y-%m-%dT%H:%M", "%Y-%m-%d"; a date-only string parses to midnight
ParseDateValue(v) == Datetime(v.day, IF v.time = "" THEN Midnight ELSE v.time)

\* `has_time="T" in value`
HasTime(v) == v.time # ""

\* _get_field_time: due_date ends the day, do_date and any other field start it
GetFieldTime(field) == IF field = "due_date" THEN EndOfDay ELSE Midnight

\* _date_to_datetime: datetime.combine(date_obj, field_time)
DateToDatetime(day, field) == Datetime(day, GetFieldTime(field))

\* _apply_field_semantics: a parsed value with a time is kept; a completed_at
\* without one takes the hour, minute and second of now; any other field takes
\* its field time
ApplyFieldSemantics(dt, field, hasTime, clock) ==
    IF hasTime THEN dt
    ELSE IF field = "completed_at" THEN Datetime(dt.day, clock)
    ELSE Datetime(dt.day, GetFieldTime(field))

\* normalize_for_field(value, field_name) called when the clock shows `clock`:
\* how the call ends and what it returns
NormalizeForField(v, field, clock) ==
    CASE v.kind = "none" -> [phase |-> "returned", out |-> NoDatetime]
      [] v.kind = "datetime" -> [phase |-> "returned", out |-> Datetime(v.day, v.time)]
      [] v.kind = "date" -> [phase |-> "returned", out |-> DateToDatetime(v.day, field)]
      [] v.kind = "str" ->
             [phase |-> "returned",
              out |-> ApplyFieldSemantics(ParseDateValue(v), field, HasTime(v), clock)]
      [] v.kind = "badstr" -> [phase |-> "raised", out |-> NoDatetime]
      [] OTHER -> [phase |-> "returned", out |-> NoDatetime]

\* a caller normalizes a value for a field
NormalizeCall ==
    /\ \E v \in NormValues, f \in NormFields :
          LET r == NormalizeForField(v, f, norm.clock)
          IN norm' = [norm EXCEPT !.phase = r.phase, !.value = v, !.field = f,
                                  !.at = norm.clock, !.out = r.out]
    /\ UNCHANGED exceptNorm

\* the time of day goes on
ClockTick ==
    /\ \E t \in Times \ {norm.clock} : norm' = [norm EXCEPT !.clock = t]
    /\ UNCHANGED exceptNorm

\* Normalization specification: normalize_for_field called with any value for
\* any field at any time of day
NextNorm ==
    \/ NormalizeCall
    \/ ClockTick

SpecNorm == Init /\ [][NextNorm]_vars

----------------------------------------------------------------------------
(* PerKeyRateLimitMiddleware.dispatch *)

RECURSIVE EvictHeadExpired(_, _)
\* mutant: an entry is dropped as soon as it is window_seconds old
EvictHeadExpired(q, t) ==
    IF q # << >> /\ t - Head(q) >= WindowSeconds THEN EvictHeadExpired(Tail(q), t) ELSE q

RECURSIVE EvictHead(_, _)
\* `while requests and current_time - requests[0] > self.window_seconds: popleft()`
EvictHead(q, t) ==
    IF q # << >> /\ t - Head(q) > WindowSeconds THEN EvictHead(Tail(q), t) ELSE q

\* _cleanup_old_entries_async: once per cleanup_interval the keys whose deque is
\* empty or whose last request is older than the window are deleted
CleanupOldEntries(reqs, t, lastCleanup) ==
    IF t - lastCleanup < CleanupInterval THEN reqs
    ELSE [k \in ApiKeys |->
             IF reqs[k] = << >> \/ reqs[k][Len(reqs[k])] < t - WindowSeconds
             THEN << >> ELSE reqs[k]]

\* dispatch(request, call_next) up to `await call_next(request)` or the 429
\* response. The coroutine is not suspended on the way: the lock is free whenever
\* a coroutine reaches it, since no holder awaits anything that suspends, so the
\* steps of concurrent dispatch calls interleave only at call_next.
Dispatch(r) ==
    /\ rate.pc[r] = "idle"
    /\ \E k \in ApiKeys \cup {NoKey} :
          IF k = NoKey
          THEN rate' = [rate EXCEPT !.pc[r] = "call_next"]
          ELSE LET t == rate.clock
                   cleaned == CleanupOldEntries(rate.requests, t, rate.last_cleanup)
                   q == EvictHead(cleaned[k], t)
                   limited == Len(q) >= RequestsPerMinute
               IN rate' = [rate EXCEPT
                      !.requests = [cleaned EXCEPT ![k] = IF limited THEN q ELSE Append(q, t)],
                      !.last_cleanup = IF t - @ < CleanupInterval THEN @ ELSE t,
                      !.pc[r] = IF limited THEN "limited" ELSE "call_next",
                      !.admitted[k] = IF limited THEN @ ELSE Append(@, t),
                      !.last = [key |-> k, at |-> t, before |-> Len(rate.admitted[k]),
                                status |-> IF limited THEN 429 ELSE 200]]
    /\ UNCHANGED exceptRate

\* the response leaves the middleware: that of call_next, or the 429
Respond(r) ==
    /\ rate.pc[r] \in {"call_next", "limited"}
    /\ rate' = [rate EXCEPT !.pc[r] = "idle"]
    /\ UNCHANGED exceptRate

\* the entries of a sequence of times that lie within the window before t
InWindow(q, t) == SelectSeq(q, LAMBDA s : t - s <= WindowSeconds)

\* a second goes by
RateTick ==
    /\ rate.clock < MaxTime
    /\ rate' = [rate EXCEPT !.clock = @ + 1,
                            !.admitted = [k \in ApiKeys |-> InWindow(@[k], rate.clock + 1)]]
    /\ UNCHANGED exceptRate

\* Rate limit specification: requests with and without keys arrive while others
\* are still being handled, as time goes by
NextRate ==
    \/ RateTick
    \/ \E r \in Requests :
          \/ Dispatch(r)
          \/ Respond(r)

SpecRate == Init /\ [][NextRate]_vars

----------------------------------------------------------------------------
(* APIKeyService.validate_key *)

\* mutant: a failed refresh stamps the cache as if it had been refreshed
StampOnRefreshFailure(a) == [a EXCEPT !.timestamp = a.clock]

\* `except Exception as e: logger.error(...)`: the cache is left as it is
KeepOnRefreshFailure(a) == a

\* _constant_time_compare over the valid keys: some valid key equals the key
AnyKeyMatches(key, valid) == \E k \in valid : k = key

\* validate_key(api_key) up to the first await that suspends: _get_valid_keys
\* reads the clock and returns the cache unless it is older than the ttl; then
\* _refresh_cache takes settings.api_keys in development, and calls
\* secrets_manager.get_api_keys() otherwise
Validate(v) ==
    /\ auth.pc[v] = "idle"
    /\ \E key \in PresentedKeys :
          IF auth.clock - auth.timestamp > CacheTtlSeconds
          THEN IF auth.env = "development"
               THEN auth' = [auth EXCEPT !.cached = SettingsKeys,
                                         !.timestamp = auth.clock,
                                         !.lastSuccess = auth.clock,
                                         !.pc[v] = "done", !.key[v] = key,
                                         !.failed[v] = FALSE,
                                         !.result[v] = AnyKeyMatches(key, SettingsKeys)]
               ELSE auth' = [auth EXCEPT !.pc[v] = "refreshing", !.key[v] = key,
                                         !.failed[v] = FALSE]
          ELSE auth' = [auth EXCEPT !.pc[v] = "done", !.key[v] = key,
                                    !.failed[v] = FALSE,
                                    !.result[v] = AnyKeyMatches(key, auth.cached)]
    /\ UNCHANGED exceptAuth

\* get_api_keys() is over: it returned a list, which becomes the cache with the
\* time of now, or it raised; then validate_key compares with the cached keys
SourceAnswers(v) ==
    /\ auth.pc[v] = "refreshing"
    /\ \E raised \in BOOLEAN, keys \in KeySets :
          LET a == IF raised
                   THEN KeepOnRefreshFailure(auth)
                   ELSE [auth EXCEPT !.cached = keys, !.timestamp = auth.clock,
                                     !.lastSuccess = auth.clock]
          IN auth' = [a EXCEPT !.pc[v] = "done",
                               !.failed[v] = raised,
                               !.result[v] = AnyKeyMatches(auth.key[v], a.cached)]
    /\ UNCHANGED exceptAuth

\* validate_key has returned
ValidateReturn(v) ==
    /\ auth.pc[v] = "done"
    /\ auth' = [auth EXCEPT !.pc[v] = "idle", !.key[v] = "", !.result[v] = FALSE,
                            !.failed[v] = FALSE]
    /\ UNCHANGED exceptAuth

\* a second goes by
AuthTick ==
    /\ auth.clock < StartTime + MaxElapsed
    /\ auth' = [auth EXCEPT !.clock = @ + 1]
    /\ UNCHANGED exceptAuth

\* a service in development or in production, its cache never filled
InitAuth ==
    /\ files = [P \in AllPaths |-> IF P = X THEN CompleteFile(InitialMeta) ELSE NoFile]
    /\ now = 1
    /\ AllIdleButAuth
    /\ \E env \in {"development", "production"} : auth = [NoAuth EXCEPT !.env = env]

\* Key service specification: validate_key calls, two at a time, while the
\* secrets source answers or fails and time goes by
NextAuth ==
    \/ AuthTick
    \/ \E v \in Validators :
          \/ Validate(v)
          \/ SourceAnswers(v)
          \/ ValidateReturn(v)

SpecAuth == InitAuth /\ [][NextAuth]_vars

----------------------------------------------------------------------------
(* Retrier.execute *)

\* `if attempt == self.max_attempts - 1: break` negated: another attempt follows
NotLastAttempt(attempt, max) == attempt # max - 1

\* mutant: the error kept is that of the first failed attempt
KeepFirstError(last, e) == IF last = "none" THEN e ELSE last

\* `last_error = e`
KeepLastError(last, e) == e

\* min(self.base_delay * (2**attempt), self.max_delay)
RetryDelay(attempt) ==
    IF BaseDelay * (2 ^ attempt) < MaxDelay THEN BaseDelay * (2 ^ attempt) ELSE MaxDelay

\* execute(operation) is called on a Retrier of some max_attempts
StartExecute ==
    /\ retry.phase = "idle"
    /\ \E n \in 1..MaxRetries :
          retry' = [NoRetry EXCEPT !.phase = "loop", !.max = n]
    /\ UNCHANGED exceptRetry

\* one iteration of `for attempt in range(self.max_attempts)`: the operation is
\* invoked; its value is returned, or its error is kept in last_error and, unless
\* this was the last attempt, the delay is computed and written to the debug log
\* (nothing sleeps: the next iteration follows at once)
Attempt ==
    /\ retry.phase = "loop"
    /\ retry.attempt < retry.max
    /\ \E o \in OpResults \cup OpErrors :
          IF o \in OpResults
          THEN retry' = [retry EXCEPT !.phase = "returned", !.result = o,
                                      !.log = Append(@, o)]
          ELSE IF NotLastAttempt(retry.attempt, retry.max)
          THEN retry' = [retry EXCEPT !.last_error = KeepLastError(@, o),
                                      !.delay = RetryDelay(retry.attempt),
                                      !.attempt = @ + 1,
                                      !.log = Append(@, o)]
          ELSE retry' = [retry EXCEPT !.last_error = KeepLastError(@, o),
                                      !.phase = "exhausted",
                                      !.log = Append(@, o)]
    /\ UNCHANGED exceptRetry

\* after the loop: `raise last_error` (a RuntimeError when there is none)
RaiseLastError ==
    /\ \/ retry.phase = "exhausted"
       \/ retry.phase = "loop" /\ retry.attempt >= retry.max
    /\ retry' = [retry EXCEPT !.phase = "raised",
                              !.raised = IF retry.last_error = "none"
                                         THEN "RuntimeError" ELSE retry.last_error]
    /\ UNCHANGED exceptRetry

\* the caller has the value or the error
ExecuteReturn ==
    /\ retry.phase \in {"returned", "raised"}
    /\ retry' = NoRetry
    /\ UNCHANGED exceptRetry

\* Retrier specification: execute calls with every max_attempts up to the one
\* FileLocker uses, on an operation that returns or raises as it likes; the loop
\* is sequential code, so a call that can take a step takes it
NextRetrier ==
    \/ StartExecute
    \/ Attempt
    \/ RaiseLastError
    \/ ExecuteReturn

SpecRetrier == Init /\ [][NextRetrier]_vars /\ WF_vars(NextRetrier)

----------------------------------------------------------------------------
(* Properties *)

Last(e) == e[Len(e)]
Finished(p, op) == pc[p] = "done" /\ call[p].op = op
\* the call failed because lock_exclusive found the lock held
Contended(p) == exc[p] # NoExc /\ Last(exc[p]).type = "BlockingIOError"
HoldsNoLock(p) == frames[p] = << >> /\ \A i \in Inodes : flockOwner[i] # p
WriteOps == {"atomic_write", "write_note"}
MutationOps == {"write_note", "move_note", "delete_note"}

\* C1: no two processes are at the same time inside the critical section of
\* acquire_write_lock for the same path.
C1_MutualExclusion ==
    \A P \in Paths : \A p, q \in AllProcs :
        p # q => ~(InCriticalSection(p, P) /\ InCriticalSection(q, P))

\* the content-producing step of the running atomic_write has raised
ProducerRaised(p) ==
    /\ call[p].op \in WriteOps
    /\ exc[p] # NoExc
    /\ Last(exc[p]).type \in {"OSError", "NotADirectoryError"}

\* C2: in an atomic_write whose content-producing step raised, no step of the
\* caller changes a record file (only the commit could, and it is never run), and
\* when the call exits no temporary file of it is left and it holds no lock.
C2_FailedWriteLeavesTarget ==
    [][\A p \in Writers :
          (pc'[p] # pc[p] /\ call[p].op \in WriteOps) =>
              /\ pc[p] # "commit" => files' = files
              /\ ProducerRaised(p) =>
                    /\ pc[p] # "commit"
                    /\ pc'[p] = "done" => (tmp'[p] = NoFile /\ HoldsNoLock(p)')]_vars

C2_Witness ==
    \E p \in Writers :
        /\ Finished(p, "atomic_write")
        /\ call[p].fault = "raise_mid"
        /\ call[p].path = X
        /\ ProducerRaised(p)
        /\ files[X] = CompleteFile(InitialMeta)
        /\ tmp[p] = NoFile

\* what a reader may find at a record path
Observable(f) == f.state \in {"nofile", "complete"}

\* C3: the file at a record path is at every instant absent or complete, and so is
\* what any read_note observed; never empty, never partially written.
C3_NoPartialContentObservable ==
    /\ \A P \in Paths : Observable(files[P])
    /\ \A p \in Writers : Observable(seen[p])

C3_Witness ==
    \E p, q \in Writers :
        /\ call[p].op = "write_note" /\ pc[p] = "produce" /\ tmp[p] = EmptyFile
        /\ Finished(q, "read_note") /\ call[q].path = call[p].path
        /\ seen[q].state = "complete"

\* C4: a write_note that met no lock contention succeeds: it raises nothing, the
\* file exists at folder/title.md, the record's source_path is that path, and no
\* temporary file and no open lock file of the call is left.
C4_WriteNoteSucceeds ==
    \A p \in Writers :
        (Finished(p, "write_note") /\ ~Contended(p)) =>
            /\ exc[p] = NoExc
            /\ files[call[p].path].state = "complete"
            /\ item[p].source_path = call[p].path
            /\ tmp[p] = NoFile
            /\ HoldsNoLock(p)

\* C5: round trip: after write_note of a record whose typed field was set in
\* memory, read_note of the written path builds a record with the same field value.
C5_RoundTrip ==
    \A p \in Writers :
        (Finished(p, "write_note") /\ ~Contended(p) /\ \A q \in Writers \ {p} : pc[q] = "idle") =>
            /\ exc[p] = NoExc
            /\ files[call[p].path].state = "complete"
            /\ ItemFromFile(call[p].path, files[call[p].path]).done = item[p].done

\* C6: of two concurrent moves, one of X to Y and one of Y to X, both complete.
C6_BothMovesComplete ==
    \A p, q \in Writers :
        ( /\ Finished(p, "move_note") /\ call[p].path = X /\ call[p].dst = Y
          /\ Finished(q, "move_note") /\ call[q].path = Y /\ call[q].dst = X ) =>
            (exc[p] = NoExc /\ exc[q] = NoExc)

\* C7: an acquire_write_lock that fails because the lock is held has made
\* max_retries lock attempts before failing.
C7_RetriesBeforeFailing ==
    \A p \in Procs :
        (Finished(p, "lock") /\ Contended(p)) => attempts[p] = MaxRetries

\* C8: a write_note, move_note or delete_note that could not get a lock raises to
\* its caller a VaultConcurrencyError whose resource is the contended path.
C8_ContentionIsConcurrencyError ==
    \A p \in Writers :
        (pc[p] = "done" /\ call[p].op \in MutationOps /\ Contended(p)) =>
            /\ Head(exc[p]).type = "VaultConcurrencyError"
            /\ Head(exc[p]).path = exc[p][Len(exc[p]) - 1].path

\* C9: an exception raised by the caller's code inside the critical section leaves
\* acquire_write_lock as that same exception, not as a VaultConcurrencyError.
C9_BodyExceptionPassesThrough ==
    \A p \in Procs :
        (Finished(p, "lock") /\ exc[p] # NoExc /\ Last(exc[p]) = BodyError) =>
            exc[p] = <<BodyError>>

\* the operation name a VaultFileOperationError carries
OperationName(op) ==
    CASE op = "write_note" -> "write"
      [] op = "move_note" -> "move"
      [] op = "delete_note" -> "delete"
      [] OTHER -> ""

\* C10: when the rename, unlink or open of a mutation fails under the lock, the
\* caller gets a VaultFileOperationError with the operation name and the path,
\* whose cause is the OS error.
C10_OSErrorIsFileOperationError ==
    \A p \in Writers :
        ( /\ pc[p] = "done" /\ call[p].op \in MutationOps
          /\ exc[p] # NoExc
          /\ Last(exc[p]).type \in {"FileNotFoundError", "NotADirectoryError"} ) =>
            /\ Head(exc[p]) =
                  VaultFileOperationError(OperationName(call[p].op), call[p].path, call[p].dst)
            /\ Len(exc[p]) = 2

\* the call a step belongs to: the running one, or the one the step enters
CallOfStep(p) == IF call[p].op = "none" THEN call'[p] ELSE call[p]

\* where a successful call of the operation leaves source_path
PathAfterSuccess(c) ==
    CASE c.op = "write_note" -> c.path
      [] c.op = "move_note" -> c.dst
      [] OTHER -> NoPath

\* C11: over any sequence of write_note, move_note and delete_note calls of one
\* caller on its record: between calls, a source_path that is set names an existing
\* file; a call that fails leaves source_path as it was; a write or move that
\* succeeds leaves it at the new location and a delete that succeeds leaves it unset.
C11_SourcePathNamesAFile ==
    [][\A p \in Callers :
          LET c == CallOfStep(p)
              before == item[p].source_path
              after == item'[p].source_path
          IN /\ (pc'[p] \in {"idle", "done"} /\ after # NoPath) =>
                    files'[after].state # "nofile"
             /\ (c.op \in MutationOps /\ after # before) =>
                    /\ exc'[p] = NoExc
                    /\ after = PathAfterSuccess(c)
                    /\ c.op # "delete_note" => pc'[p] = "done"
             /\ (c.op \in MutationOps /\ pc[p] # "done" /\ pc'[p] = "done" /\ exc'[p] = NoExc) =>
                    after = PathAfterSuccess(c)]_vars

C11_Witness ==
    \E p \in Callers :
        /\ Finished(p, "write_note")
        /\ exc[p] # NoExc
        /\ item[p].source_path = Y
        /\ files[Y].state = "complete"
        /\ files[X].state = "nofile"

\* C13: move_note and delete_note on a record whose source_path is unset raise
\* ValueError at once: no lock file is opened, and the files and the record are
\* as before.
C13_UnsetSourcePathIsRejected ==
    [][\A p \in Callers :
          ( /\ pc[p] = "idle"
            /\ call'[p].op \in {"move_note", "delete_note"}
            /\ item[p].source_path = NoPath ) =>
              /\ pc'[p] = "done"
              /\ exc'[p] = <<ValueError>>
              /\ HoldsNoLock(p)'
              /\ UNCHANGED <<files, tmp, lockDir, flockOwner, item>>]_vars

C13_Witness ==
    \E p \in Callers :
        /\ Finished(p, "delete_note")
        /\ item[p].source_path = NoPath
        /\ exc[p] = <<ValueError>>
        /\ files[X].state = "complete"

\* the paths of the records a listing returned
ListedPaths == {listing.items[i].source_path : i \in 1..Len(listing.items)}

\* C12: get_notes never raises because of a file it cannot load, and returns the
\* record of every file of the folder that can be loaded: an unloadable file
\* (malformed metadata block, unparseable date) is skipped.
C12_ListingSkipsUnloadable ==
    listing.phase = "done" =>
        /\ listing.exc = NoExc
        /\ \A P \in FolderPaths : ReadNoteOutcome(P, files[P]) = NoExc => P \in ListedPaths

\* a TaskProcessor call of the kind is over, returned or raised
PassEnded(kind) == pass.kind = kind /\ pass.phase \in {"returned", "raised"}

\* the task as it was passed to the call
DoneRecurring(t) == t.done = "true" /\ t.repeat_task # ""
DoneNonRecurring(t) == t.done = "true" /\ t.repeat_task = ""

\* the record stored at a path, as it loads
Stored(P) == ItemFromFile(P, files[P])

\* C14: process_active_task on a done task with repeat_task set returns with the
\* task open again (done false, completed_at unset), its do_date at the next
\* occurrence after now, and that record stored in the tasks folder, nothing in
\* the completed folder.
C14_DoneRecurringTaskIsReset ==
    \A p \in Callers :
        (PassEnded("active") /\ DoneRecurring(pass.loaded)) =>
            /\ pass.phase = "returned"
            /\ item[p].done = "false"
            /\ item[p].completed_at = NoDate
            /\ item[p].do_date = NextOccurrence(now)
            /\ item[p].source_path = X
            /\ files[X].state = "complete"
            /\ Stored(X).done = "false"
            /\ Stored(X).do_date = NextOccurrence(now)
            /\ files[Y].state = "nofile"

\* C15: whatever passes run, a done task with repeat_task set is never deleted
\* and never archived by a pass: after the pass its file is still in the vault
\* and no archive entry was made of it.
C15_DoneRecurringTaskIsNeverRemoved ==
    (pass.phase \in {"returned", "raised"} /\ DoneRecurring(pass.loaded)) =>
        /\ files[X].state = "complete" \/ files[Y].state = "complete"
        /\ files[A].state = "nofile"

\* C16: process_active_task on a done task without repeat_task and without
\* completed_at returns with completed_at set to now and the record moved: its
\* source_path is in the completed folder, the file is there and no file of it
\* is left in the tasks folder.
C16_DoneTaskIsCompletedAndMoved ==
    \A p \in Callers :
        ( /\ PassEnded("active")
          /\ DoneNonRecurring(pass.loaded)
          /\ pass.loaded.completed_at = NoDate ) =>
            /\ pass.phase = "returned"
            /\ item[p].completed_at = now
            /\ item[p].source_path = Y
            /\ files[Y].state = "complete"
            /\ files[X].state = "nofile"

C16_Witness ==
    \E p \in Callers :
        /\ pass.kind = "active" /\ pass.phase = "returned"
        /\ DoneNonRecurring(pass.loaded)
        /\ pass.loaded.completed_at = NoDate
        /\ now = MaxDay
        /\ item[p].completed_at = MaxDay
        /\ files[Y].state = "complete"

\* C17: when process_active_task or process_completed_task has returned without
\* error, the task is done exactly when its completed_at is set.
C17_DoneIffCompletedAt ==
    \A p \in Callers :
        pass.phase = "returned" =>
            (item[p].done = "true" <=> item[p].completed_at # NoDate)

C17_Witness ==
    \E p \in Callers :
        /\ pass.kind = "completed" /\ pass.phase = "returned"
        /\ pass.loaded.done = "false"
        /\ pass.loaded.completed_at # NoDate
        /\ item[p].completed_at = NoDate
        /\ item[p].source_path = X

\* C18: when either method has returned without error and the task still has a
\* file, the stored record has the done, completed_at, do_date, due_date and
\* is_project of the task in memory, and lies in the completed folder if the task
\* is done and in the tasks folder if it is not.
C18_StoredRecordMatchesTask ==
    \A p \in Callers :
        (pass.phase = "returned" /\ item[p].source_path # NoPath) =>
            LET t == item[p]
                s == Stored(t.source_path)
            IN /\ files[t.source_path].state = "complete"
               /\ s.done = t.done
               /\ s.completed_at = t.completed_at
               /\ s.do_date = t.do_date
               /\ s.due_date = t.due_date
               /\ s.is_project = t.is_project
               /\ t.source_path.dir = IF t.done = "true" THEN CompletedDir ELSE TasksDir

\* C19: a task without repeat_task that process_active_task found done and moved
\* to the completed folder is removed from there by a process_completed_task
\* pass that runs more than retent_for_days whole days after that: deleted, and
\* if it is a project an archive entry stands in its place.
C19_CompletedTaskIsRemoved ==
    \A p \in Callers :
        ( /\ PassEnded("completed")
          /\ DoneNonRecurring(pass.loaded)
          /\ pass.markedAt # NoDate
          /\ now - pass.markedAt > RetentForDays ) =>
            /\ files[Y].state = "nofile"
            /\ item[p].is_project = "true" => files[A].state = "complete"

\* C20: process_completed_task removes the task only if it is done and more than
\* retent_for_days whole days have gone by since completed_at; then a task that
\* is not a project is deleted, and a project leaves one archive entry and is
\* deleted; a done task at or under the threshold stays where it is.
C20_RemovalOnlyPastRetention ==
    \A p \in Callers :
        PassEnded("completed") =>
            LET t == pass.loaded
                over == /\ t.done = "true"
                        /\ t.completed_at # NoDate
                        /\ now - t.completed_at > RetentForDays
                removed == files[X].state = "nofile" /\ files[Y].state = "nofile"
            IN /\ removed => over
               /\ (over /\ item[p].is_project # "true") =>
                      (removed /\ files[A].state = "nofile")
               /\ (over /\ item[p].is_project = "true") =>
                      (removed /\ files[A].state = "complete")
               /\ (t.done = "true" /\ ~over) => files[Y].state = "complete"

\* C21: process_completed_task on a task with completed_at set and done false
\* clears completed_at, moves the record to the tasks folder and returns at once:
\* is_project is what it was, and the task is neither deleted nor archived,
\* whatever its age.
C21_ReactivatedTaskSkipsOtherRules ==
    \A p \in Callers :
        ( /\ PassEnded("completed")
          /\ pass.loaded.completed_at # NoDate
          /\ pass.loaded.done # "true" ) =>
            /\ pass.phase = "returned"
            /\ item[p].completed_at = NoDate
            /\ item[p].is_project = pass.loaded.is_project
            /\ item[p].source_path = X
            /\ files[X].state = "complete"
            /\ files[Y].state = "nofile"
            /\ files[A].state = "nofile"

C21_Witness ==
    \E p \in Callers :
        /\ pass.kind = "completed" /\ pass.phase = "returned"
        /\ pass.loaded.done = "false"
        /\ pass.loaded.completed_at = 1
        /\ now - pass.loaded.completed_at > RetentForDays
        /\ pass.loaded.content = ""
        /\ pass.loaded.is_project = "false"
        /\ item[p].is_project = "false"
        /\ files[X].state = "complete"

\* C22: process_active_task on a task that is not done returns with a do_date of
\* today or later (an unset or past do_date becomes today, any other is kept),
\* and that record is stored in place in the tasks folder, nothing is moved to
\* the completed folder.
C22_OpenTaskDoDateIsNormalized ==
    \A p \in Callers :
        (PassEnded("active") /\ pass.loaded.done # "true") =>
            /\ pass.phase = "returned"
            /\ item[p].do_date = IF pass.loaded.do_date = NoDate \/ pass.loaded.do_date < now
                                 THEN now ELSE pass.loaded.do_date
            /\ item[p].source_path = X
            /\ files[X].state = "complete"
            /\ Stored(X).do_date = item[p].do_date
            /\ files[Y].state = "nofile"

\* C23: process_active_task applied to the task a process_active_task call has
\* just worked on, on the same day and with no other change to the vault, changes
\* nothing: the fields of the task, its folder and every file of the vault are
\* after the second call what they were after the first.
C23_ProcessActiveTaskIsIdempotent ==
    \A p \in Callers :
        (PassEnded("active") /\ pass.again) =>
            /\ item[p] = pass.first
            /\ files = pass.firstFiles

C23_Witness ==
    \E p \in Callers :
        /\ pass.kind = "active" /\ pass.phase = "returned" /\ pass.again
        /\ pass.first.done = "true"
        /\ pass.first.completed_at = MaxDay
        /\ pass.first.source_path = Y
        /\ item[p].source_path = Y
        /\ files[Y].state = "complete"

\* C24: when process_active_task resets a done recurring task that has both a
\* do_date and a due_date, the distance between the two is kept: the new
\* due_date minus the new do_date is the old due_date minus the old do_date, on
\* whatever day the task is processed.
C24_ResetKeepsGracePeriod ==
    \A p \in Callers :
        ( /\ PassEnded("active")
          /\ DoneRecurring(pass.loaded)
          /\ pass.loaded.do_date # NoDate
          /\ pass.loaded.due_date # NoDate ) =>
            item[p].due_date - item[p].do_date = pass.loaded.due_date - pass.loaded.do_date

\* the call was not a reactivation: the task was done, or had no completed_at
NotReactivated(t) == ~(t.completed_at # NoDate /\ t.done # "true")

\* C25 as stated: in process_completed_task, for a task not reactivated in that
\* pass, an empty body with is_project false gives is_project true, a non-empty
\* body with is_project true gives is_project false, and in the two other
\* combinations is_project is unchanged.
C25_IsProjectFlipsAsStated ==
    \A p \in Callers :
        (PassEnded("completed") /\ NotReactivated(pass.loaded)) =>
            LET t == pass.loaded
            IN item[p].is_project =
                  IF t.content = "" /\ t.is_project = "false" THEN "true"
                  ELSE IF t.content # "" /\ t.is_project = "true" THEN "false"
                  ELSE t.is_project

\* C25 amended: in process_completed_task, for a task not reactivated in that
\* pass, an empty body with is_project true gives is_project false, a non-empty
\* body with is_project false gives is_project true, and in the two other
\* combinations is_project is unchanged: is_project ends as "the body is not empty".
C25_IsProjectFollowsContent ==
    \A p \in Callers :
        (PassEnded("completed") /\ NotReactivated(pass.loaded)) =>
            LET t == pass.loaded
            IN item[p].is_project =
                  IF t.content = "" /\ t.is_project = "true" THEN "false"
                  ELSE IF t.content # "" /\ t.is_project = "false" THEN "true"
                  ELSE t.is_project

C25_Witness ==
    \E p \in Callers :
        /\ pass.kind = "completed" /\ pass.phase = "returned"
        /\ pass.loaded.done = "true"
        /\ pass.loaded.content = "text"
        /\ pass.loaded.is_project = "false"
        /\ item[p].is_project = "true"
        /\ item[p].content = "text"

\* the number of calls of the batch that returned without error
OkCount(o) == Cardinality({i \in 1..Len(o) : o[i] = "ok"})

\* C26: in process_active_tasks and process_completed_tasks a task whose
\* processing raises does not end the batch: when the batch returns, the
\* processor was called once on every listed task, in the listed order, and the
\* processed count is the number of calls that raised no error.
C26_BatchGoesOnAfterAnError ==
    batch.phase = "returned" =>
        /\ batch.handled = batch.listed
        /\ Len(batch.outcomes) = Len(batch.listed)
        /\ batch.count = OkCount(batch.outcomes)

C26_Witness ==
    /\ batch.phase = "returned"
    /\ batch.kind = "active"
    /\ Len(batch.listed) = 2
    /\ batch.outcomes = <<"error", "ok">>
    /\ batch.count = 1

\* the positions of the log that hold one of the events
Positions(log, events) == {i \in 1..Len(log) : log[i] \in events}

PullEvents == {"pull", "pull_failed", "pull_refused"}
CommitEvents == {"commit", "commit_failed", "nothing_to_commit", "push", "push_failed"}

\* C27: with_batch_sync(operation) runs the operation exactly once, after the
\* pull was attempted and before the commit and push, and returns the value the
\* operation returned.
C27_WithBatchSyncRunsOperationOnce ==
    (git.caller = "adapter" /\ git.phase \in {"returned", "raised"}) =>
        /\ Cardinality(Positions(git.log, {"op"})) = 1
        /\ \E i \in Positions(git.log, PullEvents) :
              \A j \in Positions(git.log, {"op"}) : i < j
        /\ \A i \in Positions(git.log, CommitEvents) :
              \A j \in Positions(git.log, {"op"}) : j < i
        /\ git.phase = "returned" => git.result = git.value

\* the value names a calendar day and no time, or carries a time
DateOnly(v) == v.kind = "date" \/ (v.kind = "str" /\ v.time = "")
WithTime(v) == v.kind = "datetime" \/ (v.kind = "str" /\ v.time # "")

\* C28: normalize_for_field on a date-only value (a date object or a
\* "YYYY-MM-DD" string) returns that day at 23:59:59 for due_date, at 00:00:00
\* for do_date and at the time of day of the call for completed_at; a value that
\* carries a time is returned with that time, and an empty value gives None.
C28_NormalizeForFieldDefaults ==
    norm.phase = "returned" =>
        LET v == norm.value
        IN /\ (DateOnly(v) /\ norm.field = "due_date") => norm.out = Datetime(v.day, EndOfDay)
           /\ (DateOnly(v) /\ norm.field = "do_date") => norm.out = Datetime(v.day, Midnight)
           /\ (DateOnly(v) /\ norm.field = "completed_at") => norm.out = Datetime(v.day, norm.at)
           /\ WithTime(v) => norm.out = Datetime(v.day, v.time)
           /\ v.kind = "none" => norm.out = NoDatetime

\* C29: for every API key, a request is admitted (200) exactly when fewer than
\* requests_per_minute admitted requests of the same key lie within
\* window_seconds before it, and is answered 429 otherwise, whatever requests of
\* other keys and whatever concurrent dispatch calls there are; so the admitted
\* requests of one key within a window never exceed requests_per_minute.
C29_AdmittedIffUnderLimit ==
    /\ rate.last.key # NoKey =>
          /\ rate.last.status \in {200, 429}
          /\ rate.last.status = 200 <=> rate.last.before < RequestsPerMinute
    /\ \A k \in ApiKeys : Len(rate.admitted[k]) <= RequestsPerMinute

\* a burst of one key at one instant, larger than the limit: requests_per_minute
\* of it are admitted and still being handled, the next one is answered 429,
\* while the other key has admitted requests in the window too
C29_Witness ==
    /\ rate.last.key = "k1"
    /\ rate.last.status = 429
    /\ rate.last.at = rate.clock
    /\ rate.last.before = RequestsPerMinute
    /\ Len(rate.admitted["k1"]) = RequestsPerMinute
    /\ \A i \in 1..Len(rate.admitted["k1"]) : rate.admitted["k1"][i] = rate.clock
    /\ rate.admitted["k2"] # << >>
    /\ \E r \in Requests : rate.pc[r] = "limited"
    /\ \E r \in Requests : rate.pc[r] = "call_next"

\* what C30 says of one step of the key service
C30_Step ==
    \A v \in Validators :
       /\ (auth.pc[v] = "refreshing" /\ auth'.pc[v] = "done" /\ auth'.failed[v]) =>
             /\ auth'.cached = auth.cached
             /\ auth'.timestamp = auth.timestamp
             /\ auth'.result[v] = (auth.key[v] \in auth.cached)
       /\ (/\ auth.pc[v] = "idle" /\ auth'.pc[v] # "idle"
           /\ auth.env = "production"
           /\ auth.clock - auth.lastSuccess > CacheTtlSeconds) =>
             auth'.pc[v] = "refreshing"
       /\ (auth.pc[v] # "refreshing" /\ auth'.pc[v] = "refreshing") =>
             auth.clock - auth.lastSuccess > CacheTtlSeconds

\* C30: a refresh of the key cache that fails leaves the cached keys and the
\* cache timestamp as they were, and the validation is answered from the stale
\* keys; a validation that starts when no successful refresh lies within the ttl
\* calls the secrets source, so a failure is followed by another attempt; and the
\* secrets source is called only when no successful refresh lies within the ttl.
C30_FailedRefreshKeepsCache == [][C30_Step]_vars

\* a refresh succeeded, the ttl went by, the next refresh failed, and the key of
\* the stale cache was accepted; the cache is still due for a refresh
C30_Witness ==
    \E v \in Validators :
       /\ auth.pc[v] = "done"
       /\ auth.failed[v]
       /\ auth.key[v] = "a"
       /\ auth.result[v]
       /\ auth.cached = {"a"}
       /\ auth.timestamp > 0
       /\ auth.clock - auth.timestamp > CacheTtlSeconds

\* what C31 says of one step of a process in acquire_write_lock
C31_Step ==
    \A p \in Writers :
       /\ (pc[p] # "unlink" /\ pc'[p] = "unlink") => pc[p] = "unlock"
       /\ (pc[p] # "close" /\ pc'[p] = "close") => pc[p] = "unlink"
       /\ (pc[p] = "unlock" /\ pc'[p] = "unlink") =>
             /\ exc'[p] = exc[p]
             /\ ~UnlockFails(call[p]) => flockOwner'[Top(p).ino] # p
       /\ (pc[p] = "unlink" /\ pc'[p] = "close") =>
             /\ exc'[p] = exc[p]
             /\ ~UnlinkFails(call[p]) => lockDir'[Top(p).path] = 0
       /\ (pc[p] # "done" /\ pc'[p] = "done") =>
             /\ pc[p] = "close"
             /\ frames'[p] = << >>
             /\ \A i \in Inodes : flockOwner'[i] # p
             /\ exc'[p] = NoExc <=> exc[p] = NoExc
             /\ exc'[p] # NoExc => Last(exc'[p]) = Last(exc[p])
             /\ exc'[p] # NoExc => Last(exc'[p]).type \in {"BlockingIOError", "RuntimeError"}

\* C31: acquire_write_lock(P) leaves on every path (end of the critical section,
\* an exception inside it, a failed lock attempt) through the unlock and the
\* unlink of P.lock; afterwards the process holds no lock and has no lock file
\* open, and the name P.lock was removed unless the OS refused; a refused unlock
\* or unlink is not raised: the result or the error in flight stays what it was.
C31_ReleaseOnEveryExit == [][C31_Step]_vars

\* the critical section raised, the unlink of the lock file was refused, and the
\* call ended with the error of the critical section, the lock file still there
C31_Witness ==
    \E p \in Writers :
       /\ pc[p] = "done"
       /\ call[p].fault = "body_raises_unlink_fails"
       /\ exc[p] # NoExc
       /\ Last(exc[p]) = BodyError
       /\ lockDir[X] # 0
       /\ frames[p] = << >>
       /\ \A i \in Inodes : flockOwner[i] # p

\* C32: a move_note with distinct source and destination locks the path whose
\* string sorts first, then the other one, whichever of them is the source; the
\* second lock is taken and given back while the first is held, so the locks are
\* released in reverse order; and the rename runs only with both locks held.
C32_MoveLocksInPathOrder ==
    \A p \in Writers :
       call[p].op = "move_note" =>
          /\ Len(frames[p]) <= 2
          /\ Len(frames[p]) >= 1 =>
                /\ frames[p][1].path \in {call[p].path, call[p].dst}
                /\ \A Q \in {call[p].path, call[p].dst} :
                      PathKey(frames[p][1].path) <= PathKey(Q)
          /\ Len(frames[p]) = 2 =>
                /\ frames[p][2].path \in {call[p].path, call[p].dst}
                /\ frames[p][2].path # frames[p][1].path
                /\ frames[p][1].locked
                /\ flockOwner[frames[p][1].ino] = p
          /\ pc[p] = "rename" =>
                /\ Len(frames[p]) = 2
                /\ \A k \in 1..2 : frames[p][k].locked /\ flockOwner[frames[p][k].ino] = p

\* a move out of the tasks folder is about to rename: its first lock is that of
\* the destination, which sorts first, and its second that of the source
C32_Witness ==
    \E p \in Writers :
       /\ call[p].op = "move_note"
       /\ pc[p] = "rename"
       /\ call[p].path = X
       /\ call[p].dst = Y
       /\ frames[p][1].path = Y
       /\ frames[p][2].path = X

\* what C33 says of one step of the process that archives a project task
C33_Step ==
    \A p \in Callers :
       /\ pass.phase = "archiving" =>
             /\ files[Y].state = "complete"
             /\ files'[Y] = files[Y]
             /\ pass'.phase # "archiving" =>
                   IF exc[p] = NoExc
                   THEN files[A].state = "complete" /\ call'[p].op = "delete_note"
                   ELSE /\ pass'.phase = "raised"
                        /\ call'[p].op # "delete_note"
                        /\ pc'[p] = "done"
       /\ ( /\ pass.kind = "completed"
            /\ call[p].op = "delete_note"
            /\ item[p].is_project = "true"
            /\ files'[Y] # files[Y] ) => files[A].state = "complete"

\* C33: archive_task writes the archive entry first and deletes the original
\* only when that write returned: while the write runs the original stays in the
\* completed folder, a failed write ends the call with the original in place and
\* no delete, and the original of a project is removed only when the archive
\* entry is there; so the task is never absent from both folders.
C33_ArchiveBeforeDelete == [][C33_Step]_vars

\* the archive write of a project past retention failed: the call raised, the
\* original is still in the completed folder, nothing is in the archive folder
C33_Witness ==
    \E p \in Callers :
       /\ pass.kind = "completed"
       /\ pass.phase = "raised"
       /\ call[p].op = "write_note"
       /\ call[p].path = A
       /\ item[p].is_project = "true"
       /\ OverRetented(item[p], now)
       /\ exc[p] # NoExc
       /\ files[Y].state = "complete"
       /\ files[A].state = "nofile"

\* the state of an execute call, as C34 has it: the operation was invoked at most
\* max_attempts times and once per loop iteration; a call that returned did so
\* with the value of its first successful invocation, which was the last one
\* made; a call that raised did so after max_attempts failures in a row, with the
\* error of the last of them
C34_Inv ==
    LET n == Len(retry.log) IN
    /\ n <= retry.max
    /\ \A k \in 1..(n - 1) : retry.log[k] \in OpErrors
    /\ retry.phase = "loop" => n = retry.attempt /\ \A k \in 1..n : retry.log[k] \in OpErrors
    /\ retry.phase = "returned" =>
          /\ n >= 1
          /\ retry.log[n] \in OpResults
          /\ retry.result = retry.log[n]
          /\ retry.raised = "none"
    /\ retry.phase \in {"exhausted", "raised"} =>
          /\ n = retry.max
          /\ retry.log[n] \in OpErrors
          /\ retry.last_error = retry.log[n]
    /\ retry.phase = "raised" =>
          /\ retry.raised = retry.log[n]
          /\ retry.result = "none"

\* C34: Retrier.execute invokes the operation at most max_attempts times, returns
\* the value of the first invocation that succeeds without invoking it again,
\* raises the error of the last attempt after max_attempts failures in a row,
\* and every call that started comes to its return or its raise.
C34_ExecuteTerminates ==
    /\ []C34_Inv
    /\ (retry.phase = "loop") ~> (retry.phase \in {"returned", "raised"})

\* an execute call with the max_attempts of FileLocker failed every time, with
\* different errors, and raised the last one
C34_Witness ==
    /\ retry.phase = "raised"
    /\ retry.max = MaxRetries
    /\ Len(retry.log) = MaxRetries
    /\ retry.log[1] = "e1"
    /\ retry.raised = "e2"

\* C35: after failed attempt k (from 0) that is not the last, the acquirer waits
\* min(base_delay * 2^k, max_delay) before attempt k+1; no wait is longer than
\* max_delay and none follows the last attempt.
C35_WaitsBetweenAttempts ==
    LET n == Len(retry.log)
        failed == IF n > 0 /\ retry.log[n] \in OpResults THEN n - 1 ELSE n
        waits == IF failed > 0 /\ failed = retry.max THEN failed - 1 ELSE failed
    IN /\ Len(retry.slept) = waits
       /\ \A k \in 1..Len(retry.slept) :
             /\ retry.slept[k] = RetryDelay(k - 1)
             /\ retry.slept[k] <= MaxDelay

\* C36: while a process holds the lock of a path P, the name P.lock refers to
\* the lock file that process locked: no other process's failed attempt or
\* cleanup removes or replaces it.
C36_LockFileStaysWhileHeld ==
    \A p \in Procs :
       \A k \in 1..Len(frames[p]) :
          (frames[p][k].locked /\ flockOwner[frames[p][k].ino] = p) =>
              lockDir[frames[p][k].path] = frames[p][k].ino

\* C37: a move never destroys another record: the content a different file had
\* at the destination before a move is still stored afterwards (or the move
\* failed and changed nothing); in a vault where only moves run, the content of
\* each of the two files it started with stays stored under some path.
C37_MoveKeepsDestination ==
    \A m \in {InitialMeta, NewMeta} :
       \E Q \in AllPaths : files[Q] = CompleteFile(m)

\* the second lock attempt of a move_note failed: the BlockingIOError is in
\* flight, under as many VaultConcurrencyErrors as lock frames were left
SecondLockFailed(p) ==
    /\ call[p].op = "move_note"
    /\ exc[p] # NoExc
    /\ Last(exc[p]) = BlockingIOError
    /\ Len(frames[p]) + Len(exc[p]) = 3

\* what C38 says of one step after the second lock attempt failed
C38_Step ==
    \A p \in Writers :
       /\ (SecondLockFailed(p) /\ pc[p] # "done" /\ pc'[p] # pc[p]) =>
             /\ pc'[p] # "rename"
             /\ files' = files
             /\ item'[p].source_path = item[p].source_path
             /\ item[p].source_path = call[p].path
       /\ (SecondLockFailed(p) /\ pc[p] # "done" /\ pc'[p] = "done") =>
             /\ frames'[p] = << >>
             /\ \A i \in Inodes : flockOwner'[i] # p
             /\ exc'[p] # NoExc

\* C38: a move_note that got its first lock and failed to get the second
\* releases the first lock, renames nothing, changes no file and leaves
\* record.source_path what it was; the call ends with an error.
C38_SecondLockFailureChangesNothing == [][C38_Step]_vars

\* a move out of the tasks folder ended after its second lock attempt failed:
\* the file is where it was, source_path names it, and the mover holds no lock
C38_Witness ==
    \E p \in Writers :
       /\ pc[p] = "done"
       /\ SecondLockFailed(p)
       /\ call[p].path = X
       /\ item[p].source_path = X
       /\ files[X].state = "complete"
       /\ frames[p] = << >>
       /\ \A i \in Inodes : flockOwner[i] # p

\* C39: in a batch of a service with a git repository the tasks to process are
\* read from the vault after the pull of remote state: whenever the service holds
\* the list it loaded, the pull of this batch has been made.
C39_TasksReadAfterPull ==
    (batch.phase = "running" /\ git.caller = "service") =>
        Positions(git.log, PullEvents) # {}

\* the calls of _do_commit a batch_sync has made
CommitAttempts == {"commit", "commit_failed", "nothing_to_commit"}

\* the state of GitManager, as C40 has it
C40_Inv ==
    LET tries == Positions(git.log, CommitAttempts)
        ops == Positions(git.log, {"op"})
    IN /\ git.batch_mode => git.phase \in {"running", "commit"}
       /\ git.phase \in {"idle", "entered", "pull", "returned", "raised"} => ~git.batch_mode
       /\ Cardinality(tries) <= 1
       /\ \A i \in tries : ops # {} /\ \A j \in 1..Len(git.log) : j < i <=> git.log[j] \notin
                                                       (CommitAttempts \cup {"push", "push_failed"})
       /\ git.phase = "returned" => Cardinality(tries) = 1
       /\ tries # {} => git.phase \in {"returned", "raised"}
       /\ (git.phase = "raised" /\ git.exc # "VaultGitOperationError") => tries = {}

\* what C40 says of one step inside the body of a batch
C40_Step ==
    (git.phase = "running" /\ git'.phase = "running") =>
        /\ git'.local = git.local
        /\ git'.pushed = git.pushed
        /\ git'.batch_mode = git.batch_mode
        /\ git.dirty => git'.dirty

\* C40: the batch-mode flag is set only inside an outermost batch_sync, from the
\* start of its body to its exit, and is clear after batch_sync on every path;
\* a commit_changes call or a nested batch_sync inside the body commits nothing
\* and leaves the flag alone; _do_commit is called once per outermost batch, after
\* the body returned, and not at all when the body raised.
C40_BatchModeOnlyInsideBatch == []C40_Inv /\ [][C40_Step]_vars

\* a batch with a commit message whose body changed a file, called
\* commit_changes and ran a nested batch_sync ended with one commit, made after
\* the body, and the flag is clear
C40_Witness ==
    /\ git.phase = "returned"
    /\ git.caller = "direct"
    /\ ~git.batch_mode
    /\ git.local = 1
    /\ Positions(git.log, {"commit_deferred"}) # {}
    /\ Positions(git.log, {"nested_exit"}) # {}
    /\ Cardinality(Positions(git.log, {"commit"})) = 1
    /\ \A i \in Positions(git.log, {"commit"}) : git.log[i - 1] = "op"

====
